---- MODULE Spec2Model ----
(***************************************************************************)
(* Model of compress-mcp-server: the FormatRegistry, CompressionUtils, the *)
(* GzipHandler and the unified compression tool (the dispatcher).          *)
(*                                                                         *)
(* Strings (format names, extensions, paths) are sequences of one-char     *)
(* strings, so that toLowerCase, endsWith, slice and the path functions    *)
(* are computed the way the code computes them.                            *)
(***************************************************************************)
EXTENDS Integers, Sequences, FiniteSets, TLC

(***************************************************************************)
(* Bounds of the model.                                                    *)
(***************************************************************************)
\* number of register calls in one run
MaxRegs == 3
\* largest previewLength requested
MaxPreview == 2
\* largest chunk the gunzip stream emits
MaxChunk == 3
\* number of file-system nodes the requests of one run may create
MaxCreated == 3
\* largest number of bytes of a file that is compressed and decompressed
MaxData == 3

(***************************************************************************)
(* String primitives (JavaScript String methods).                          *)
(***************************************************************************)
UpperChars == <<"A", "B", "C", "D", "E", "F", "G", "H", "I", "J", "K", "L", "M",
                "N", "O", "P", "Q", "R", "S", "T", "U", "V", "W", "X", "Y", "Z">>
LowerChars == <<"a", "b", "c", "d", "e", "f", "g", "h", "i", "j", "k", "l", "m",
                "n", "o", "p", "q", "r", "s", "t", "u", "v", "w", "x", "y", "z">>

LowerChar(c) ==
  IF \E i \in 1..Len(UpperChars) : UpperChars[i] = c
  THEN LowerChars[CHOOSE i \in 1..Len(UpperChars) : UpperChars[i] = c]
  ELSE c

\* String.prototype.toLowerCase
toLowerCase(s) == [i \in 1..Len(s) |-> LowerChar(s[i])]

\* String.prototype.endsWith
endsWith(s, suf) ==
  /\ Len(suf) <= Len(s)
  /\ SubSeq(s, Len(s) - Len(suf) + 1, Len(s)) = suf

\* String.prototype.includes
includes(s, sub) ==
  \E i \in 1..(Len(s) - Len(sub) + 1) : SubSeq(s, i, i + Len(sub) - 1) = sub

\* s.slice(0, -n)
dropRight(s, n) == SubSeq(s, 1, Len(s) - n)

(***************************************************************************)
(* path (POSIX) of Node.js: split, normalize, join, dirname, basename.     *)
(***************************************************************************)
Slash == "/"

RECURSIVE SplitFrom(_, _, _)
\* the segments of s between slashes, from position i on; cur is the
\* segment read so far
SplitFrom(s, i, cur) ==
  IF i > Len(s) THEN <<cur>>
  ELSE IF s[i] = Slash THEN <<cur>> \o SplitFrom(s, i + 1, <<>>)
  ELSE SplitFrom(s, i + 1, Append(cur, s[i]))

Split(s) == SplitFrom(s, 1, <<>>)

RECURSIVE JoinSegs(_)
JoinSegs(segs) ==
  IF Len(segs) = 0 THEN <<>>
  ELSE IF Len(segs) = 1 THEN segs[1]
  ELSE segs[1] \o <<Slash>> \o JoinSegs(Tail(segs))

DotDot == <<".", ".">>
Dot == <<".">>

RECURSIVE NormalizeSegs(_, _, _)
\* normalizeString of path.posix: drops empty and "." segments, resolves
\* ".." against the previous segment, keeps a leading ".." only when the
\* path is relative
NormalizeSegs(segs, res, allowAboveRoot) ==
  IF Len(segs) = 0 THEN res
  ELSE LET seg == Head(segs)
           rest == Tail(segs)
       IN IF seg = <<>> \/ seg = Dot
          THEN NormalizeSegs(rest, res, allowAboveRoot)
          ELSE IF seg = DotDot
          THEN IF Len(res) > 0 /\ res[Len(res)] # DotDot
               THEN NormalizeSegs(rest, SubSeq(res, 1, Len(res) - 1), allowAboveRoot)
               ELSE IF allowAboveRoot
               THEN NormalizeSegs(rest, Append(res, seg), allowAboveRoot)
               ELSE NormalizeSegs(rest, res, allowAboveRoot)
          ELSE NormalizeSegs(rest, Append(res, seg), allowAboveRoot)

isAbsolute(p) == Len(p) > 0 /\ p[1] = Slash

\* path.normalize
pathNormalize(p) ==
  IF Len(p) = 0 THEN Dot
  ELSE LET abs == isAbsolute(p)
           trailing == p[Len(p)] = Slash
           body == JoinSegs(NormalizeSegs(Split(p), <<>>, ~abs))
           body1 == IF Len(body) = 0 /\ ~abs THEN Dot ELSE body
           body2 == IF Len(body1) > 0 /\ trailing THEN Append(body1, Slash) ELSE body1
       IN IF abs THEN <<Slash>> \o body2 ELSE body2

\* path.join of two arguments
pathJoin(a, b) ==
  IF Len(a) = 0 /\ Len(b) = 0 THEN Dot
  ELSE IF Len(a) = 0 THEN pathNormalize(b)
  ELSE IF Len(b) = 0 THEN pathNormalize(a)
  ELSE pathNormalize(a \o <<Slash>> \o b)

\* path.dirname
pathDirname(p) ==
  IF Len(p) = 0 THEN Dot
  ELSE LET cuts == {k \in 2..Len(p) :
                      /\ p[k] = Slash
                      /\ \E j \in (k + 1)..Len(p) : p[j] # Slash}
       IN IF cuts = {}
          THEN (IF isAbsolute(p) THEN <<Slash>> ELSE Dot)
          ELSE LET k == CHOOSE c \in cuts : \A d \in cuts : d <= c
               IN IF isAbsolute(p) /\ k = 2 THEN <<Slash, Slash>>
                  ELSE SubSeq(p, 1, k - 1)

\* path.basename
pathBasename(p) ==
  LET segs == SelectSeq(Split(p), LAMBDA s : s # <<>>)
  IN IF Len(segs) = 0 THEN <<>> ELSE segs[Len(segs)]

(***************************************************************************)
(* Bytes and the codec.  zlib is an external library: gzip is modelled as  *)
(* an invertible framing (a magic byte in front of the data) and gunzip    *)
(* fails on data without the magic byte.                                   *)
(***************************************************************************)
GzMagic == 31

Gzip(data) == <<GzMagic>> \o data

IsGzipData(data) == Len(data) > 0 /\ data[1] = GzMagic

Gunzip(data) == Tail(data)

(***************************************************************************)
(* The file system.  A node is addressed by the segments of its absolute   *)
(* path; a path given to an fs call is resolved against process.cwd().     *)
(***************************************************************************)
Cwd == <<Slash, "w">>

\* the key of the node a path names
Resolve(p) ==
  IF isAbsolute(p) THEN NormalizeSegs(Split(p), <<>>, FALSE)
  ELSE NormalizeSegs(Split(Cwd \o <<Slash>> \o p), <<>>, FALSE)

DirNode == [kind |-> "dir", data |-> <<>>]
FileNode(d) == [kind |-> "file", data |-> d]

Exists(f, p) == Resolve(p) \in DOMAIN f

\* the proper ancestors of key k, the root included
Ancestors(k) == {SubSeq(k, 1, n) : n \in 0..(Len(k) - 1)}

\* fs.mkdir(p, {recursive: true}): throws if p is a file or an ancestor
\* is a file, changes nothing if p is a directory, creates p and its
\* missing ancestors otherwise
fsMkdir(f, p) ==
  LET k == Resolve(p)
      blocked == \/ (k \in DOMAIN f /\ f[k].kind # "dir")
                 \/ \E a \in Ancestors(k) : a \in DOMAIN f /\ f[a].kind # "dir"
      missing == {a \in Ancestors(k) \cup {k} : a \notin DOMAIN f}
  IN IF blocked THEN [threw |-> TRUE, fs |-> f]
     ELSE [threw |-> FALSE,
           fs |-> [n \in DOMAIN f \cup missing |->
                     IF n \in DOMAIN f THEN f[n] ELSE DirNode]]

\* opening fs.createWriteStream(p) (flag 'w'): fails if the parent is not
\* an existing directory or p is a directory; creates or truncates p
fsOpenWrite(f, p) ==
  LET k == Resolve(p)
      parent == SubSeq(k, 1, Len(k) - 1)
      ok == /\ Len(k) > 0
            /\ parent \in DOMAIN f
            /\ f[parent].kind = "dir"
            /\ (k \in DOMAIN f => f[k].kind = "file")
  IN IF ~ok THEN [threw |-> TRUE, fs |-> f]
     ELSE [threw |-> FALSE,
           fs |-> [n \in DOMAIN f \cup {k} |->
                     IF n = k THEN FileNode(<<>>) ELSE f[n]]]

\* the bytes of an open target are replaced by d
fsWrite(f, p, d) == [f EXCEPT ![Resolve(p)] = FileNode(d)]

(***************************************************************************)
(* CompressionUtils.                                                       *)
(***************************************************************************)
fileExists(f, p) == Exists(f, p)

isFile(f, p) == Exists(f, p) /\ f[Resolve(p)].kind = "file"

isDirectory(f, p) == Exists(f, p) /\ f[Resolve(p)].kind = "dir"

getFileSize(f, p) == Len(f[Resolve(p)].data)

\* fs.mkdir(p) without the option recursive: the parent has to be an
\* existing directory
fsMkdirFlat(f, p) ==
  LET k == Resolve(p)
      parent == SubSeq(k, 1, Len(k) - 1)
  IN IF \/ k \in DOMAIN f
        \/ parent \notin DOMAIN f
        \/ f[parent].kind # "dir"
     THEN [threw |-> TRUE, fs |-> f]
     ELSE [threw |-> FALSE, fs |-> [n \in DOMAIN f \cup {k} |-> IF n = k THEN DirNode ELSE f[n]]]

\* ensureDir with a slip: mkdir is called without {recursive: true}
ensureDirFlat(f, p) ==
  IF Exists(f, p) /\ f[Resolve(p)].kind = "dir"
  THEN [threw |-> FALSE, fs |-> f]
  ELSE fsMkdirFlat(f, p)

\* ensureDir: an existing directory is left alone; in every other case
\* (absent, or the "exists but is not a directory" error caught by the
\* method's own catch) mkdir runs and its error, if any, is raised
ensureDir(f, p) ==
  IF fileExists(f, p) /\ isDirectory(f, p)
  THEN [threw |-> FALSE, fs |-> f]
  ELSE fsMkdir(f, p)

\* what a method that may throw gives: the value it returns or the message
\* of the error it throws
Gives(value) == [threw |-> FALSE, value |-> value]
Throws(message) == [threw |-> TRUE, message |-> message]

\* normalizePath: throws when the normalized text includes ".."
normalizePath(filePath) ==
  LET normalized == pathNormalize(filePath)
  IN IF includes(normalized, <<".", ".">>)
     THEN Throws("Path traversal detected. Path cannot contain \"..\"")
     ELSE Gives(normalized)

resolveOutputPath(sourcePath, outputDir, outputFileName, defaultExt) ==
  LET sourceDir == pathDirname(sourcePath)
      targetDir == IF Len(outputDir) > 0 THEN outputDir ELSE sourceDir
      fileName == IF Len(outputFileName) > 0 THEN outputFileName
                  ELSE pathBasename(sourcePath) \o defaultExt
  IN pathJoin(targetDir, fileName)

\* Math.round of the quotient num / den of two naturals, den > 0
MathRound(num, den) == (2 * num + den) \div (2 * den)

\* a number that is Infinity or NaN
NotFinite == -1

\* an optional number that is not given
Absent == -1

\* formatCompressionRatio: (compressedSize / originalSize) * 100 with two
\* decimals, as a number of hundredths of a percent
formatCompressionRatio(originalSize, compressedSize) ==
  IF originalSize = 0 THEN NotFinite
  ELSE MathRound(compressedSize * 10000, originalSize)

Min(a, b) == IF a <= b THEN a ELSE b

\* formatProgress: totalBytes and percentComplete are set only when
\* totalBytes is truthy
formatProgress(bytesProcessed, totalBytes, stage) ==
  [bytesProcessed |-> bytesProcessed,
   totalBytes |-> IF totalBytes # 0 THEN totalBytes ELSE Absent,
   percentComplete |-> IF totalBytes # 0
                       THEN Min(MathRound(bytesProcessed * 100, totalBytes), 100)
                       ELSE Absent,
   stage |-> stage]

\* a message: the text of the template and the value it interpolates
Msg(text, arg) == [text |-> text, arg |-> arg]

\* details that are absent, and the stack of a caught error
Details(text, list) == [text |-> text, list |-> list]
NoDetails == Details("", <<>>)
Stack == Details("stack", <<>>)

createSuccessResult(message, data) ==
  [isError |-> FALSE, content |-> [text |-> message, data |-> data]]

\* createErrorResult with a slip: the shape of the standalone tools, which
\* put the text of an error under content
createErrorResultAsContent(message, details) ==
  [isError |-> TRUE, content |-> [text |-> message, details |-> details]]

createErrorResult(message, details) ==
  [isError |-> TRUE, error |-> [message |-> message, details |-> details]]

(***************************************************************************)
(* Map of JavaScript: keys in insertion order; set on an existing key      *)
(* replaces the value and keeps the key's position.                        *)
(***************************************************************************)
Undefined == "undefined"

MapHas(m, k) == \E i \in 1..Len(m) : m[i].key = k

MapGet(m, k) ==
  IF MapHas(m, k) THEN m[CHOOSE i \in 1..Len(m) : m[i].key = k].value
  ELSE Undefined

\* MapSet with a slip: a key that is present keeps its value
MapSetKeepFirst(m, k, v) ==
  IF MapHas(m, k) THEN m ELSE Append(m, [key |-> k, value |-> v])

MapSet(m, k, v) ==
  IF MapHas(m, k)
  THEN [i \in 1..Len(m) |-> IF m[i].key = k THEN [key |-> k, value |-> v] ELSE m[i]]
  ELSE Append(m, [key |-> k, value |-> v])

MapKeys(m) == [i \in 1..Len(m) |-> m[i].key]

(***************************************************************************)
(* The handlers: two instances of GzipHandler and one handler of another   *)
(* class written after the CompressionHandler interface.                   *)
(***************************************************************************)
HandlerIds == {"gzipA", "gzipB", "newFormat"}

ClassOf(h) == IF h \in {"gzipA", "gzipB"} THEN "GzipHandler" ELSE "NewFormatHandler"

ExtGz == <<".", "g", "z">>
ExtNew == <<".", "n", "e", "w", "e", "x", "t">>
ExtTarGz == <<".", "t", "a", "r", ".", "g", "z">>

getSupportedExtensions(h) ==
  IF ClassOf(h) = "GzipHandler" THEN <<ExtGz>> ELSE <<ExtNew>>

GzipIsFormatValid(filePath) == endsWith(toLowerCase(filePath), ExtGz)

isFormatValid(h, filePath) ==
  IF ClassOf(h) = "GzipHandler" THEN GzipIsFormatValid(filePath)
  ELSE endsWith(toLowerCase(filePath), ExtNew)

(***************************************************************************)
(* GzipHandler.  Every method is one try block whose catch turns the error *)
(* into an error result, so a call always returns a result.  ioFail is a   *)
(* stream error during the pipeline.                                       *)
(***************************************************************************)
Returned(r, f) == [how |-> "return", result |-> r, fs |-> f]

\* GzipHandler.compress with a change: the catch removes the target that the
\* failed pipeline left
GzipCompressCleaning(f, sourcePath, targetPath, ioFail) ==
  IF ~fileExists(f, sourcePath)
  THEN Returned(createErrorResult(Msg("Source file does not exist: ", sourcePath), NoDetails), f)
  ELSE IF ~isFile(f, sourcePath)
  THEN Returned(createErrorResult(Msg("Source path is not a file: ", sourcePath),
                                  Details("Please use a regular file for gzip compression.", <<>>)), f)
  ELSE
    LET sourceSize == getFileSize(f, sourcePath)
        made == ensureDir(f, pathDirname(targetPath))
        opened == fsOpenWrite(made.fs, targetPath)
        sourceData == opened.fs[Resolve(sourcePath)].data
        written == fsWrite(opened.fs, targetPath, Gzip(sourceData))
    IN IF made.threw
       THEN Returned(createErrorResult(Msg("Error compressing file: ", <<"mkdir">>), Stack), made.fs)
       ELSE IF opened.threw
       THEN Returned(createErrorResult(Msg("Error compressing file: ", <<"open">>), Stack), opened.fs)
       ELSE IF ioFail
       THEN Returned(createErrorResult(Msg("Error compressing file: ", <<"stream">>), Stack), made.fs)
       ELSE Returned(createSuccessResult(
                       Msg("Successfully compressed file to ", targetPath),
                       [originalSize |-> sourceSize,
                        compressedSize |-> getFileSize(written, targetPath),
                        compressionRatio |->
                          formatCompressionRatio(sourceSize, getFileSize(written, targetPath)),
                        sourcePath |-> sourcePath,
                        targetPath |-> targetPath]),
                     written)

GzipCompress(f, sourcePath, targetPath, ioFail) ==
  IF ~fileExists(f, sourcePath)
  THEN Returned(createErrorResult(Msg("Source file does not exist: ", sourcePath), NoDetails), f)
  ELSE IF ~isFile(f, sourcePath)
  THEN Returned(createErrorResult(Msg("Source path is not a file: ", sourcePath),
                                  Details("Please use a regular file for gzip compression.", <<>>)), f)
  ELSE
    LET sourceSize == getFileSize(f, sourcePath)
        made == ensureDir(f, pathDirname(targetPath))
        opened == fsOpenWrite(made.fs, targetPath)
        sourceData == opened.fs[Resolve(sourcePath)].data
        written == fsWrite(opened.fs, targetPath, Gzip(sourceData))
    IN IF made.threw
       THEN Returned(createErrorResult(Msg("Error compressing file: ", <<"mkdir">>), Stack), made.fs)
       ELSE IF opened.threw
       THEN Returned(createErrorResult(Msg("Error compressing file: ", <<"open">>), Stack), opened.fs)
       ELSE IF ioFail
       THEN Returned(createErrorResult(Msg("Error compressing file: ", <<"stream">>), Stack), opened.fs)
       ELSE Returned(createSuccessResult(
                       Msg("Successfully compressed file to ", targetPath),
                       [originalSize |-> sourceSize,
                        compressedSize |-> getFileSize(written, targetPath),
                        compressionRatio |->
                          formatCompressionRatio(sourceSize, getFileSize(written, targetPath)),
                        sourcePath |-> sourcePath,
                        targetPath |-> targetPath]),
                     written)

\* GzipHandler.decompress with a slip: the gunzip stream is left out of
\* the pipeline
GzipDecompressPiped(f, sourcePath, targetDir, ioFail) ==
  IF ~fileExists(f, sourcePath)
  THEN Returned(createErrorResult(Msg("Source file does not exist: ", sourcePath), NoDetails), f)
  ELSE IF ~isFile(f, sourcePath)
  THEN Returned(createErrorResult(Msg("Source path is not a file: ", sourcePath), NoDetails), f)
  ELSE
    LET made == ensureDir(f, targetDir)
        sourceBaseName == pathBasename(sourcePath)
        targetFileName == IF endsWith(sourceBaseName, ExtGz)
                          THEN dropRight(sourceBaseName, 3)
                          ELSE sourceBaseName
        targetPath == pathJoin(targetDir, targetFileName)
        sourceSize == getFileSize(f, sourcePath)
        opened == fsOpenWrite(made.fs, targetPath)
        sourceData == opened.fs[Resolve(sourcePath)].data
        written == fsWrite(opened.fs, targetPath, sourceData)
    IN IF made.threw
       THEN Returned(createErrorResult(Msg("Error decompressing file: ", <<"mkdir">>), Stack), made.fs)
       ELSE IF opened.threw
       THEN Returned(createErrorResult(Msg("Error decompressing file: ", <<"open">>), Stack), opened.fs)
       ELSE IF ioFail \/ ~IsGzipData(sourceData)
       THEN Returned(createErrorResult(Msg("Error decompressing file: ", <<"stream">>), Stack), opened.fs)
       ELSE Returned(createSuccessResult(
                       Msg("Successfully decompressed file to ", targetPath),
                       [compressedSize |-> sourceSize,
                        decompressedSize |-> getFileSize(written, targetPath),
                        expansionRatio |->
                          formatCompressionRatio(sourceSize, getFileSize(written, targetPath)),
                        sourcePath |-> sourcePath,
                        targetPath |-> targetPath]),
                     written)

GzipDecompress(f, sourcePath, targetDir, ioFail) ==
  IF ~fileExists(f, sourcePath)
  THEN Returned(createErrorResult(Msg("Source file does not exist: ", sourcePath), NoDetails), f)
  ELSE IF ~isFile(f, sourcePath)
  THEN Returned(createErrorResult(Msg("Source path is not a file: ", sourcePath), NoDetails), f)
  ELSE
    LET made == ensureDir(f, targetDir)
        sourceBaseName == pathBasename(sourcePath)
        targetFileName == IF endsWith(sourceBaseName, ExtGz)
                          THEN dropRight(sourceBaseName, 3)
                          ELSE sourceBaseName
        targetPath == pathJoin(targetDir, targetFileName)
        sourceSize == getFileSize(f, sourcePath)
        opened == fsOpenWrite(made.fs, targetPath)
        sourceData == opened.fs[Resolve(sourcePath)].data
        written == fsWrite(opened.fs, targetPath, Gunzip(sourceData))
    IN IF made.threw
       THEN Returned(createErrorResult(Msg("Error decompressing file: ", <<"mkdir">>), Stack), made.fs)
       ELSE IF opened.threw
       THEN Returned(createErrorResult(Msg("Error decompressing file: ", <<"open">>), Stack), opened.fs)
       ELSE IF ioFail \/ ~IsGzipData(sourceData)
       THEN Returned(createErrorResult(Msg("Error decompressing file: ", <<"stream">>), Stack), opened.fs)
       ELSE Returned(createSuccessResult(
                       Msg("Successfully decompressed file to ", targetPath),
                       [compressedSize |-> sourceSize,
                        decompressedSize |-> getFileSize(written, targetPath),
                        expansionRatio |->
                          formatCompressionRatio(sourceSize, getFileSize(written, targetPath)),
                        sourcePath |-> sourcePath,
                        targetPath |-> targetPath]),
                     written)

RECURSIVE Accumulate(_, _, _, _)
\* the 'data' handler of the gunzip stream: chunks of at most chunk bytes
\* are counted until previewLength is reached and the streams are destroyed
Accumulate(totalLength, remaining, chunk, previewLength) ==
  IF remaining = 0 THEN totalLength
  ELSE LET n == Min(chunk, remaining)
       IN IF totalLength + n >= previewLength THEN totalLength + n
          ELSE Accumulate(totalLength + n, remaining - n, chunk, previewLength)

GzipListContents(f, sourcePath, previewLength, chunk, ioFail) ==
  IF ~fileExists(f, sourcePath)
  THEN Returned(createErrorResult(Msg("Source file does not exist: ", sourcePath), NoDetails), f)
  ELSE IF ~isFile(f, sourcePath)
  THEN Returned(createErrorResult(Msg("Source path is not a file: ", sourcePath), NoDetails), f)
  ELSE IF ~GzipIsFormatValid(sourcePath)
  THEN Returned(createErrorResult(Msg("File is not a valid gzip file: ", sourcePath),
                                  Details("File must have .gz extension", <<>>)), f)
  ELSE
    LET sourceSize == getFileSize(f, sourcePath)
        sourceData == f[Resolve(sourcePath)].data
        payload == Gunzip(sourceData)
        totalLength == Accumulate(0, Len(payload), chunk, previewLength)
        previewContent == SubSeq(payload, 1, Min(previewLength, totalLength))
    IN IF ioFail \/ ~IsGzipData(sourceData)
       THEN Returned(createErrorResult(Msg("Error reading compressed file: ", <<"stream">>), Stack), f)
       ELSE Returned(createSuccessResult(
                       Msg("Content preview of ", sourcePath),
                       [fileName |-> IF endsWith(pathBasename(sourcePath), ExtGz)
                                     THEN dropRight(pathBasename(sourcePath), 3)
                                     ELSE pathBasename(sourcePath),
                        compressedSize |-> sourceSize,
                        previewSize |-> totalLength,
                        preview |-> previewContent,
                        isTruncated |-> totalLength > previewLength]),
                     f)

(***************************************************************************)
(* A handler of another class: the interface fixes only the signature, so  *)
(* a call returns a success or an error result, throws before a promise    *)
(* exists, or returns a promise that rejects.                              *)
(***************************************************************************)
HandlerOutcomes == {"success", "failure", "throw", "reject"}

NewFormatOperation(f, hout) ==
  IF hout = "success"
  THEN Returned(createSuccessResult(Msg("Successfully compressed to ", <<>>), [none |-> TRUE]), f)
  ELSE IF hout = "failure"
  THEN Returned(createErrorResult(Msg("Compression error: ", <<>>), Stack), f)
  ELSE [how |-> hout, result |-> [none |-> TRUE], fs |-> f]

handlerCompress(h, f, sourcePath, targetPath, nd) ==
  IF ClassOf(h) = "GzipHandler" THEN GzipCompress(f, sourcePath, targetPath, nd.ioFail)
  ELSE NewFormatOperation(f, nd.hout)

handlerDecompress(h, f, sourcePath, targetDir, nd) ==
  IF ClassOf(h) = "GzipHandler" THEN GzipDecompress(f, sourcePath, targetDir, nd.ioFail)
  ELSE NewFormatOperation(f, nd.hout)

handlerListContents(h, f, sourcePath, previewLength, nd) ==
  IF ClassOf(h) = "GzipHandler"
  THEN GzipListContents(f, sourcePath, previewLength, nd.chunk, nd.ioFail)
  ELSE NewFormatOperation(f, nd.hout)

(***************************************************************************)
(* FormatRegistry.                                                         *)
(***************************************************************************)
RECURSIVE SetAll(_, _, _)
\* the loop of register over the handler's extensions
SetAll(m, exts, h) ==
  IF Len(exts) = 0 THEN m
  ELSE SetAll(MapSet(m, toLowerCase(Head(exts)), h), Tail(exts), h)

registerHandlers(hs, formatName, h) == MapSet(hs, toLowerCase(formatName), h)

registerExtensions(em, h) == SetAll(em, getSupportedExtensions(h), h)

\* getHandlerByFormat with a slip: the name is looked up as given
getHandlerByFormatAsGiven(hs, formatName) == MapGet(hs, formatName)

getHandlerByFormat(hs, formatName) == MapGet(hs, toLowerCase(formatName))

getHandlerByExtension(em, extension) ==
  LET ext == toLowerCase(extension)
  IN IF endsWith(ext, ExtTarGz) /\ MapHas(em, ExtTarGz)
     THEN MapGet(em, ExtTarGz)
     ELSE MapGet(em, ext)

getAllFormats(hs) == MapKeys(hs)

\* getHandlerForFile: the first value of the map handlers, in the order of
\* its keys, that accepts the file
getHandlerForFile(hs, filePath) ==
  LET valid == {i \in 1..Len(hs) : isFormatValid(hs[i].value, filePath)}
  IN IF valid = {} THEN Undefined
     ELSE hs[CHOOSE i \in valid : \A j \in valid : i <= j].value

(***************************************************************************)
(* The unified compression tool: the parameter schema and execute.         *)
(***************************************************************************)
MinPreviewLength == 1
MaxPreviewLength == 10000
DefaultPreviewLength == 1000

Operations == {"compress", "decompress", "list"}

\* unifiedCompressionParameters
Validate(params) ==
  /\ params.operation \in Operations
  /\ Len(params.format) >= 1
  /\ Len(params.sourcePath) >= 1
  /\ \/ params.previewLength = Absent
     \/ (MinPreviewLength <= params.previewLength /\ params.previewLength <= MaxPreviewLength)

NoResult == [none |-> TRUE]

Done(r, f, t) == [outcome |-> "returned", result |-> r, fs |-> f, trace |-> t]

\* the catch of execute
Caught(params, f, t) ==
  Done(createErrorResult(Msg("Error during operation: ", <<params.operation>>), Stack), f, t)

\* "return handler.method(...)" inside the try of an async function: a
\* call that throws is caught, a returned promise is handed on unawaited,
\* so its rejection rejects the promise of execute
FromHandler(params, r, t) ==
  IF r.how = "return" THEN Done(r.result, r.fs, t)
  ELSE IF r.how = "throw" THEN Caught(params, r.fs, t)
  ELSE [outcome |-> "rejected", result |-> NoResult, fs |-> r.fs, trace |-> t]

\* executeCompress with a slip: the target is not checked
executeCompressUnchecked(params, handler, f, nd) ==
  LET sourcePath == params.sourcePath
      extensions == getSupportedExtensions(handler)
      defaultExt == IF Len(extensions) > 0 THEN extensions[1] ELSE <<>>
      targetPath == resolveOutputPath(sourcePath, params.outputDirectory,
                                      params.outputFileName, defaultExt)
      t == <<"fileExists", "isDirectory", "isFile">>
  IN IF ~isDirectory(f, sourcePath) /\ ~isFile(f, sourcePath)
     THEN Done(createErrorResult(Msg("Source path must be a file or directory: ", sourcePath),
                                 NoDetails), f, t)
     ELSE FromHandler(params, handlerCompress(handler, f, sourcePath, targetPath, nd),
                      t \o <<"handler.compress">>)

executeCompress(params, handler, f, nd) ==
  LET sourcePath == params.sourcePath
      extensions == getSupportedExtensions(handler)
      defaultExt == IF Len(extensions) > 0 THEN extensions[1] ELSE <<>>
      targetPath == resolveOutputPath(sourcePath, params.outputDirectory,
                                      params.outputFileName, defaultExt)
      t == <<"fileExists", "isDirectory", "isFile">>
  IN IF ~isDirectory(f, sourcePath) /\ ~isFile(f, sourcePath)
     THEN Done(createErrorResult(Msg("Source path must be a file or directory: ", sourcePath),
                                 NoDetails), f, t)
     ELSE IF fileExists(f, targetPath)
     THEN Done(createErrorResult(Msg("Output file already exists: ", targetPath),
                                 Details("Please specify a different output file name or directory", <<>>)),
               f, Append(t, "fileExists"))
     ELSE FromHandler(params, handlerCompress(handler, f, sourcePath, targetPath, nd),
                      t \o <<"fileExists", "handler.compress">>)

\* executeDecompress with a slip: the output directory is made before the
\* format is checked
executeDecompressDirFirst(params, handler, f, nd) ==
  LET sourcePath == params.sourcePath
      targetDir == IF Len(params.outputDirectory) > 0 THEN params.outputDirectory
                   ELSE pathDirname(sourcePath)
      made == ensureDir(f, targetDir)
      t == <<"fileExists", "isFile">>
  IN IF ~isFile(f, sourcePath)
     THEN Done(createErrorResult(Msg("Source path must be a file: ", sourcePath), NoDetails), f, t)
     ELSE IF made.threw
     THEN Caught(params, made.fs, Append(t, "ensureDir"))
     ELSE IF ~isFormatValid(handler, sourcePath)
     THEN Done(createErrorResult(Msg("File is not a valid file: ", sourcePath),
                                 Details("Expected file extensions: ", getSupportedExtensions(handler))),
               made.fs, Append(t, "ensureDir"))
     ELSE FromHandler(params, handlerDecompress(handler, made.fs, sourcePath, targetDir, nd),
                      t \o <<"ensureDir", "handler.decompress">>)

executeDecompress(params, handler, f, nd) ==
  LET sourcePath == params.sourcePath
      targetDir == IF Len(params.outputDirectory) > 0 THEN params.outputDirectory
                   ELSE pathDirname(sourcePath)
      made == ensureDir(f, targetDir)
      t == <<"fileExists", "isFile">>
  IN IF ~isFile(f, sourcePath)
     THEN Done(createErrorResult(Msg("Source path must be a file: ", sourcePath), NoDetails), f, t)
     ELSE IF ~isFormatValid(handler, sourcePath)
     THEN Done(createErrorResult(Msg("File is not a valid file: ", sourcePath),
                                 Details("Expected file extensions: ", getSupportedExtensions(handler))),
               f, t)
     ELSE IF made.threw
     THEN Caught(params, made.fs, Append(t, "ensureDir"))
     ELSE FromHandler(params, handlerDecompress(handler, made.fs, sourcePath, targetDir, nd),
                      t \o <<"ensureDir", "handler.decompress">>)

executeList(params, handler, f, nd) ==
  LET sourcePath == params.sourcePath
      previewLength == IF params.previewLength = Absent THEN DefaultPreviewLength
                       ELSE params.previewLength
      t == <<"fileExists", "isFile">>
  IN IF ~isFile(f, sourcePath)
     THEN Done(createErrorResult(Msg("Source path must be a file: ", sourcePath), NoDetails), f, t)
     ELSE IF ~isFormatValid(handler, sourcePath)
     THEN Done(createErrorResult(Msg("File is not a valid file: ", sourcePath),
                                 Details("Expected file extensions: ", getSupportedExtensions(handler))),
               f, t)
     ELSE FromHandler(params, handlerListContents(handler, f, sourcePath, previewLength, nd),
                      Append(t, "handler.listContents"))

\* execute with a slip: the source is not checked
executeSourceUnchecked(params, hs, f, nd) ==
  LET handler == getHandlerByFormat(hs, params.format)
  IN IF handler = Undefined
     THEN Done(createErrorResult(Msg("Unsupported format: ", params.format),
                                 Details("Supported formats are: ", getAllFormats(hs))),
               f, <<>>)
     ELSE IF params.operation = "compress" THEN executeCompress(params, handler, f, nd)
     ELSE IF params.operation = "decompress" THEN executeDecompress(params, handler, f, nd)
     ELSE executeList(params, handler, f, nd)

\* execute with a slip: the source is checked before the format
executeSourceFirst(params, hs, f, nd) ==
  LET handler == getHandlerByFormat(hs, params.format)
  IN IF ~fileExists(f, params.sourcePath)
     THEN Done(createErrorResult(Msg("Source path does not exist: ", params.sourcePath), NoDetails),
               f, <<"fileExists">>)
     ELSE IF handler = Undefined
     THEN Done(createErrorResult(Msg("Unsupported format: ", params.format),
                                 Details("Supported formats are: ", getAllFormats(hs))),
               f, <<"fileExists">>)
     ELSE IF params.operation = "compress" THEN executeCompress(params, handler, f, nd)
     ELSE IF params.operation = "decompress" THEN executeDecompress(params, handler, f, nd)
     ELSE executeList(params, handler, f, nd)

execute(params, hs, f, nd) ==
  LET handler == getHandlerByFormat(hs, params.format)
  IN IF handler = Undefined
     THEN Done(createErrorResult(Msg("Unsupported format: ", params.format),
                                 Details("Supported formats are: ", getAllFormats(hs))),
               f, <<>>)
     ELSE IF ~fileExists(f, params.sourcePath)
     THEN Done(createErrorResult(Msg("Source path does not exist: ", params.sourcePath), NoDetails),
               f, <<"fileExists">>)
     ELSE IF params.operation = "compress" THEN executeCompress(params, handler, f, nd)
     ELSE IF params.operation = "decompress" THEN executeDecompress(params, handler, f, nd)
     ELSE executeList(params, handler, f, nd)

(***************************************************************************)
(* The inputs of the model.                                                *)
(***************************************************************************)
FmtGzip == <<"g", "z", "i", "p">>
FmtGZIP == <<"G", "Z", "I", "P">>
FmtGzipMixed == <<"G", "z", "i", "p">>
FmtNew == <<"n", "e", "w", "f", "o", "r", "m", "a", "t">>

\* the names given to register, and the names looked up
FormatNames == {FmtGzip, FmtGZIP, FmtGzipMixed, FmtNew}

\* what registerHandlers of the server registers: the GzipHandler alone,
\* or the GzipHandler and a handler of a new format after it
StartupRegistrations ==
  {<<[name |-> FmtGzip, handler |-> "gzipA"]>>,
   <<[name |-> FmtGzip, handler |-> "gzipA"], [name |-> FmtNew, handler |-> "newFormat"]>>}

PathA == <<"a">>
PathMissing == <<"n">>
PathUp == <<".", ".", "/", "s", ".", "g", "z">>
DirOut == <<"o">>
DirOther == <<"p">>
NameAGz == <<"a", ".", "g", "z">>
NameSub == <<"s", "/", "x">>
PathCwd == <<".">>
PathBGZ == <<"b", ".", "G", "Z">>

None == <<>>

Params(ops, formats, sources, dirs, names, previews) ==
  [operation : ops, format : formats, sourcePath : sources,
   outputDirectory : dirs, outputFileName : names, previewLength : previews]

\* the tool calls of the model
Requests ==
  Params({"compress"}, {FmtGzip}, {PathA, PathMissing}, {None}, {None, NameAGz, NameSub}, {Absent})
    \cup Params({"compress"}, {FmtGzip}, {PathA, PathMissing}, {DirOut}, {None}, {Absent})
    \cup Params({"compress"}, {FmtGzip}, {PathUp}, {None}, {None}, {Absent})
    \cup Params({"compress"}, {FmtNew}, {PathA, PathMissing}, {None}, {None}, {Absent})
    \cup Params({"decompress"}, {FmtGzip}, {PathUp, PathMissing, PathA}, {None, DirOut}, {None}, {Absent})
    \cup Params({"decompress", "list"}, {FmtNew}, {PathUp}, {None}, {None}, {Absent})
    \cup Params({"decompress", "list"}, {FmtGzip}, {PathCwd}, {None}, {None}, {Absent})
    \cup Params({"decompress"}, {FmtGzip}, {PathBGZ}, {None, DirOut}, {None}, {Absent})
    \cup Params({"list"}, {FmtGZIP}, {PathUp}, {None}, {None}, {Absent, 0} \cup (1..MaxPreview))
    \cup Params({"list"}, {FmtGzip}, {PathMissing, PathA}, {None}, {None}, {Absent})
    \cup Params({"compress"}, {FmtGzip, None}, {None}, {None}, {None}, {Absent})

\* the file system the server starts on: /w is the working directory
InitFs ==
  (<<>> :> DirNode)
    @@ (<< <<"w">> >> :> DirNode)
    @@ (<< <<"w">>, <<"a">> >> :> FileNode(<<1, 2>>))
    @@ (<< <<"w">>, PathBGZ >> :> FileNode(Gzip(<<4>>)))
    @@ (<< <<"s", ".", "g", "z">> >> :> FileNode(Gzip(<<5, 6, 7>>)))

Created(f) == Cardinality(DOMAIN f) - Cardinality(DOMAIN InitFs)

(***************************************************************************)
(* The state machine.                                                      *)
(***************************************************************************)
VARIABLES
  handlers,      \* FormatRegistry.handlers
  extensionMap,  \* FormatRegistry.extensionMap
  regLog,        \* history: the register calls, oldest first
  phase,         \* "startup" until the server is started, then "serving"
  fs,            \* the file system
  request,       \* the parameters of the last tool call
  outcome,       \* how it ended: "invalid", "returned" or "rejected"
  result,        \* the result it returned
  trace,         \* the file-system and handler calls execute made, in order
  procs,         \* the operations in progress: each one's position and locals
  cancelRequested, \* the caller asked for the operation in progress to stop
  original,      \* history: the file last handed to compress (its bytes, the
                 \* archive asked for) and whether the last call met a stream error
  utility        \* the last call of a method of CompressionUtils or of a lookup
                 \* of the registry made on its own: its arguments and what it gave

vars == <<handlers, extensionMap, regLog, phase, fs, request, outcome, result, trace,
          procs, cancelRequested, original, utility>>

\* what a tool call that runs to its end in one step leaves alone
stepVars == <<procs, cancelRequested, original, utility>>

\* no method has been called on its own
NoUtility == [method |-> "none"]

\* no file has been handed to compress
NoOriginal == [bytes |-> <<>>, archive |-> None, ioFail |-> FALSE]

\* an operation in progress that has not been invoked
ProcIds == {1, 2}

NoRequest ==
  [operation |-> "none", format |-> None, sourcePath |-> None,
   outputDirectory |-> None, outputFileName |-> None, previewLength |-> Absent]

IdleProc ==
  [pc |-> "idle", op |-> "none", params |-> NoRequest,
   sourcePath |-> None, target |-> None,
   outputFileName |-> None,
   previewLength |-> 0, chunk |-> 1, sink |-> FALSE,
   sourceSize |-> 0, processedBytes |-> 0, totalLength |-> 0, chunks |-> <<>>,
   reads |-> 0, destroyed |-> FALSE, events |-> <<>>, reports |-> <<>>,
   result |-> NoResult,
   failures |-> 0]  \* history: the read, transform and write steps that failed

Init ==
  /\ handlers = <<>>
  /\ extensionMap = <<>>
  /\ regLog = <<>>
  /\ phase = "startup"
  /\ fs = InitFs
  /\ request = NoRequest
  /\ outcome = "none"
  /\ result = NoResult
  /\ trace = <<>>
  /\ procs = [p \in ProcIds |-> IdleProc]
  /\ cancelRequested = FALSE
  /\ original = NoOriginal
  /\ utility = NoUtility

\* FormatRegistry.register
Register(formatName, handler) ==
  /\ phase = "startup"
  /\ Len(regLog) < MaxRegs
  /\ handlers' = registerHandlers(handlers, formatName, handler)
  /\ extensionMap' = registerExtensions(extensionMap, handler)
  /\ regLog' = Append(regLog, [name |-> formatName, handler |-> handler])
  /\ UNCHANGED <<phase, fs, request, outcome, result, trace>>
  /\ UNCHANGED stepVars

RECURSIVE RegisterAll(_, _)
\* the maps after the register calls regs, made in order on the maps m
RegisterAll(m, regs) ==
  IF Len(regs) = 0 THEN m
  ELSE RegisterAll([handlers |-> registerHandlers(m.handlers, Head(regs).name, Head(regs).handler),
                    extensionMap |-> registerExtensions(m.extensionMap, Head(regs).handler)],
                   Tail(regs))

\* main of the server: registerHandlers, then the tools are added and the
\* server is started
Main(regs) ==
  /\ phase = "startup"
  /\ regLog = <<>>
  /\ \E m \in {RegisterAll([handlers |-> handlers, extensionMap |-> extensionMap], regs)} :
       /\ handlers' = m.handlers
       /\ extensionMap' = m.extensionMap
  /\ regLog' = regs
  /\ phase' = "serving"
  /\ UNCHANGED <<fs, request, outcome, result, trace>>
  /\ UNCHANGED stepVars

\* the choices a call depends on: the chunk size only for list, the stream
\* error only under a GzipHandler, the handler's conduct only otherwise
ChoicesFor(params) ==
  LET handler == getHandlerByFormat(handlers, params.format)
  IN IF handler = Undefined \/ ~Validate(params)
     THEN [ioFail : {FALSE}, chunk : {1}, hout : {"success"}]
     ELSE IF ClassOf(handler) = "GzipHandler"
     THEN [ioFail : BOOLEAN,
           chunk : IF params.operation = "list" THEN 1..MaxChunk ELSE {1},
           hout : {"success"}]
     ELSE [ioFail : {FALSE}, chunk : {1}, hout : HandlerOutcomes]

\* one call of the tool "compression", c.params being the parameters and
\* c.nd the choices: the parameters are parsed against the schema and
\* execute runs on the parsed parameters
Call(c) ==
  /\ phase = "serving"
  /\ Created(fs) < MaxCreated
  /\ request' = c.params
  /\ IF ~Validate(c.params)
     THEN /\ outcome' = "invalid"
          /\ result' = NoResult
          /\ trace' = <<>>
          /\ fs' = fs
     ELSE \E r \in {execute(c.params, handlers, fs, c.nd)} :
             /\ outcome' = r.outcome
             /\ result' = r.result
             /\ trace' = r.trace
             /\ fs' = r.fs
  /\ UNCHANGED <<handlers, extensionMap, regLog, phase>>
  /\ UNCHANGED stepVars

\* the calls that can be made: a request and the choices it depends on
Calls == UNION {{[params |-> p, nd |-> c] : c \in ChoicesFor(p)} : p \in Requests}

\* the server: main, then tool calls
Next ==
  \/ \E regs \in StartupRegistrations : Main(regs)
  \/ \E c \in Calls : Call(c)

Spec == Init /\ [][Next]_vars

\* the registry alone, under every sequence of register calls
NextRegistry == \E n \in FormatNames, h \in HandlerIds : Register(n, h)

SpecRegistry == Init /\ [][NextRegistry]_vars

(***************************************************************************)
(* The operations one await at a time.  An operation in progress is a      *)
(* record of procs: pc is the await it stands at, the other fields are the *)
(* locals of the method.  Between two awaits of one operation the steps of *)
(* another may run.                                                        *)
(***************************************************************************)
PathE == <<"e">>
PathBGz == <<"b", ".", "g", "z">>
PathEGz == <<"e", ".", "g", "z">>
DirD == <<"d">>

\* the file system the operations in progress start on: the working
\* directory holds an empty file, a gzip file and a folder of two files
\* as well
StreamFs ==
  InitFs @@ (<< <<"w">>, PathE >> :> FileNode(<<>>))
         @@ (<< <<"w">>, PathBGz >> :> FileNode(Gzip(<<5, 6, 7>>)))
         @@ (<< <<"w">>, DirD >> :> DirNode)
         @@ (<< <<"w">>, DirD, <<"x">> >> :> FileNode(<<1>>))
         @@ (<< <<"w">>, DirD, <<"y">> >> :> FileNode(<<2, 3>>))

StreamCreated(f) == Cardinality(DOMAIN f) - Cardinality(DOMAIN StreamFs)

callVars == <<handlers, extensionMap, regLog, phase, request, outcome, result, trace>>

\* the operation pr ends with the result res
Ended(pr, res) == [pr EXCEPT !.pc = "done", !.result = res]

\* progressCallback(e), when a callback was given
Emit(pr, e) == IF pr.sink THEN [pr EXCEPT !.events = Append(@, e)] ELSE pr

\* the bytes a read of at most n bytes at offset pos of file p returns
ReadAt(f, p, pos, n) ==
  LET data == f[Resolve(p)].data
  IN IF pos >= Len(data) THEN <<>>
     ELSE SubSeq(data, pos + 1, Min(pos + n, Len(data)))

\* a handler method is called: compress, decompress or listContents of a
\* GzipHandler, with or without a progress callback
Invoke(p, call) ==
  /\ procs[p].pc \in {"idle", "done", "invalid"}
  /\ StreamCreated(fs) < MaxCreated
  /\ procs' = [procs EXCEPT ![p] =
                 [IdleProc EXCEPT !.pc = "start", !.op = call.op,
                                  !.sourcePath = call.sourcePath, !.target = call.target,
                                  !.previewLength = call.previewLength,
                                  !.chunk = call.chunk, !.sink = call.sink]]
  /\ cancelRequested' = FALSE
  /\ UNCHANGED <<fs, original, utility>>
  /\ UNCHANGED callVars

\* the text of the error results of each method
ErrorText(op) ==
  IF op = "compress" THEN "Error compressing file: "
  ELSE IF op = "decompress" THEN "Error decompressing file: "
  ELSE "Error reading compressed file: "

\* a step of the method fails and the catch of the method turns the error
\* into an error result
Thrown(pr, what) ==
  Ended([pr EXCEPT !.failures = @ + 1],
        createErrorResult(Msg(ErrorText(pr.op), <<what>>), Stack))

\* the checks at the head of each method, up to the first await that
\* changes the file system
Start(p) ==
  LET pr == procs[p]
  IN /\ pr.pc = "start"
     /\ pr.op \in {"compress", "decompress", "listContents"}
     /\ procs' = [procs EXCEPT ![p] =
          IF ~fileExists(fs, pr.sourcePath)
          THEN Ended(pr, createErrorResult(Msg("Source file does not exist: ", pr.sourcePath), NoDetails))
          ELSE IF ~isFile(fs, pr.sourcePath)
          THEN Ended(pr, createErrorResult(
                       Msg("Source path is not a file: ", pr.sourcePath),
                       IF pr.op = "compress"
                       THEN Details("Please use a regular file for gzip compression.", <<>>)
                       ELSE NoDetails))
          ELSE IF pr.op = "listContents" /\ ~GzipIsFormatValid(pr.sourcePath)
          THEN Ended(pr, createErrorResult(Msg("File is not a valid gzip file: ", pr.sourcePath),
                                           Details("File must have .gz extension", <<>>)))
          ELSE IF pr.op = "listContents"
          THEN Emit([pr EXCEPT !.pc = "stream", !.sourceSize = getFileSize(fs, pr.sourcePath)],
                    formatProgress(0, getFileSize(fs, pr.sourcePath), "reading"))
          ELSE IF pr.op = "compress"
          THEN [pr EXCEPT !.pc = "mkdir", !.sourceSize = getFileSize(fs, pr.sourcePath)]
          ELSE [pr EXCEPT !.pc = "mkdir"]]
     /\ UNCHANGED <<fs, cancelRequested, original, utility>>
     /\ UNCHANGED callVars

\* the path the method writes to: the targetPath of compress, the file
\* under targetDir that decompress names after its source
WritePath(pr) ==
  IF pr.op = "compress" THEN pr.target
  ELSE LET sourceBaseName == pathBasename(pr.sourcePath)
       IN pathJoin(pr.target, IF endsWith(sourceBaseName, ExtGz)
                              THEN dropRight(sourceBaseName, 3)
                              ELSE sourceBaseName)

\* await CompressionUtils.ensureDir(targetDir)
EnsureDir(p) ==
  LET pr == procs[p]
      made == ensureDir(fs, IF pr.op = "compress" THEN pathDirname(pr.target) ELSE pr.target)
  IN /\ pr.pc = "mkdir"
     /\ pr.op \in {"compress", "decompress"}
     /\ fs' = made.fs
     /\ procs' = [procs EXCEPT ![p] =
          IF made.threw THEN Thrown(pr, "mkdir") ELSE [pr EXCEPT !.pc = "open"]]
     /\ UNCHANGED <<cancelRequested, original, utility>>
     /\ UNCHANGED callVars

\* the streams are created, the first progress is reported and the
\* pipeline opens the target
Open(p) ==
  LET pr == procs[p]
      sized == IF pr.op = "decompress"
               THEN [pr EXCEPT !.sourceSize = getFileSize(fs, pr.sourcePath)]
               ELSE pr
      begun == Emit(sized, formatProgress(0, sized.sourceSize,
                                          IF pr.op = "compress" THEN "compressing"
                                          ELSE "decompressing"))
      opened == fsOpenWrite(fs, WritePath(pr))
  IN /\ pr.pc = "open"
     /\ pr.op \in {"compress", "decompress"}
     /\ fs' = opened.fs
     /\ procs' = [procs EXCEPT ![p] =
          IF opened.threw THEN Thrown(begun, "open") ELSE [begun EXCEPT !.pc = "stream"]]
     /\ UNCHANGED <<cancelRequested, original, utility>>
     /\ UNCHANGED callVars

\* the source stream reads one chunk: the 'data' listener reports the
\* progress and the transformed bytes reach the target
Chunk(p) ==
  LET pr == procs[p]
      bytes == ReadAt(fs, pr.sourcePath, pr.processedBytes, pr.chunk)
      read == [pr EXCEPT !.processedBytes = @ + Len(bytes),
                         !.chunks = @ \o bytes,
                         !.reads = @ + 1]
      told == Emit(read, formatProgress(read.processedBytes, pr.sourceSize,
                                        IF pr.op = "compress" THEN "compressing"
                                        ELSE "decompressing"))
  IN /\ pr.pc = "stream"
     /\ pr.op \in {"compress", "decompress"}
     /\ Len(bytes) > 0
     /\ IF pr.op = "compress"
        THEN /\ fs' = fsWrite(fs, WritePath(pr), Gzip(read.chunks))
             /\ procs' = [procs EXCEPT ![p] = told]
        ELSE IF IsGzipData(read.chunks)
        THEN /\ fs' = fsWrite(fs, WritePath(pr), Gunzip(read.chunks))
             /\ procs' = [procs EXCEPT ![p] = told]
        ELSE /\ fs' = fs
             /\ procs' = [procs EXCEPT ![p] = Thrown(told, "stream")]
     /\ UNCHANGED <<cancelRequested, original, utility>>
     /\ UNCHANGED callVars

\* the source is read to its end: the transform flushes and the pipeline
\* settles
EndOfSource(p) ==
  LET pr == procs[p]
  IN /\ pr.pc = "stream"
     /\ pr.op \in {"compress", "decompress"}
     /\ Len(ReadAt(fs, pr.sourcePath, pr.processedBytes, pr.chunk)) = 0
     /\ IF pr.op = "compress"
        THEN /\ fs' = fsWrite(fs, WritePath(pr), Gzip(pr.chunks))
             /\ procs' = [procs EXCEPT ![p] = [pr EXCEPT !.pc = "finish"]]
        ELSE /\ fs' = fs
             /\ procs' = [procs EXCEPT ![p] =
                  IF IsGzipData(pr.chunks) THEN [pr EXCEPT !.pc = "finish"]
                  ELSE Thrown(pr, "stream")]
     /\ UNCHANGED <<cancelRequested, original, utility>>
     /\ UNCHANGED callVars

\* a stream of the pipeline emits 'error' (a destroyed stream emits none):
\* the pipeline rejects and the method's catch returns the error result
StreamError(p) ==
  LET pr == procs[p]
  IN /\ pr.pc = "stream"
     /\ pr.op \in {"compress", "decompress", "listContents"}
     /\ ~pr.destroyed
     /\ procs' = [procs EXCEPT ![p] = Thrown(pr, "stream")]
     /\ UNCHANGED <<fs, cancelRequested, original, utility>>
     /\ UNCHANGED callVars

\* after the pipeline: the size of the written file is read and the
\* success result is returned
Finish(p) ==
  LET pr == procs[p]
      size == getFileSize(fs, WritePath(pr))
  IN /\ pr.pc = "finish"
     /\ pr.op \in {"compress", "decompress"}
     /\ procs' = [procs EXCEPT ![p] =
          IF pr.op = "compress"
          THEN Ended(pr, createSuccessResult(
                       Msg("Successfully compressed file to ", pr.target),
                       [originalSize |-> pr.sourceSize,
                        compressedSize |-> size,
                        compressionRatio |-> formatCompressionRatio(pr.sourceSize, size),
                        sourcePath |-> pr.sourcePath,
                        targetPath |-> pr.target]))
          ELSE Ended(pr, createSuccessResult(
                       Msg("Successfully decompressed file to ", WritePath(pr)),
                       [compressedSize |-> pr.sourceSize,
                        decompressedSize |-> size,
                        expansionRatio |-> formatCompressionRatio(pr.sourceSize, size),
                        sourcePath |-> pr.sourcePath,
                        targetPath |-> WritePath(pr)]))]
     /\ UNCHANGED <<fs, cancelRequested, original, utility>>
     /\ UNCHANGED callVars

\* listContents: the gunzip stream emits one chunk of decompressed bytes;
\* the 'data' listener keeps it, destroys both streams once previewLength
\* bytes are held and reports the progress
GunzipData(p) ==
  LET pr == procs[p]
      data == fs[Resolve(pr.sourcePath)].data
      bytes == IF IsGzipData(data)
               THEN SubSeq(Gunzip(data), pr.totalLength + 1,
                           Min(pr.totalLength + pr.chunk, Len(Gunzip(data))))
               ELSE <<>>
      kept == [pr EXCEPT !.chunks = @ \o bytes,
                         !.totalLength = @ + Len(bytes),
                         !.reads = @ + 1,
                         !.destroyed = pr.totalLength + Len(bytes) >= pr.previewLength]
      told == Emit(kept, formatProgress(Min(kept.totalLength, pr.sourceSize),
                                        pr.sourceSize, "reading"))
  IN /\ pr.pc = "stream"
     /\ pr.op = "listContents"
     /\ ~pr.destroyed
     /\ Len(bytes) > 0
     /\ procs' = [procs EXCEPT ![p] = told]
     /\ UNCHANGED <<fs, cancelRequested, original, utility>>
     /\ UNCHANGED callVars

\* listContents: the pipeline settles, by the end of the data or by the
\* premature close that the method ignores; the preview is cut, the
\* progress 'complete' is reported and the result is returned
ListEnd(p) ==
  LET pr == procs[p]
      data == fs[Resolve(pr.sourcePath)].data
      told == Emit(pr, formatProgress(pr.sourceSize, pr.sourceSize, "complete"))
  IN /\ pr.pc = "stream"
     /\ pr.op = "listContents"
     /\ \/ pr.destroyed
        \/ ~IsGzipData(data)
        \/ (IsGzipData(data) /\ pr.totalLength >= Len(Gunzip(data)))
     /\ procs' = [procs EXCEPT ![p] =
          IF ~pr.destroyed /\ ~IsGzipData(data)
          THEN Thrown(pr, "stream")
          ELSE Ended(told, createSuccessResult(
                       Msg("Content preview of ", pr.sourcePath),
                       [fileName |-> IF endsWith(pathBasename(pr.sourcePath), ExtGz)
                                     THEN dropRight(pathBasename(pr.sourcePath), 3)
                                     ELSE pathBasename(pr.sourcePath),
                        compressedSize |-> pr.sourceSize,
                        previewSize |-> pr.totalLength,
                        preview |-> SubSeq(pr.chunks, 1, Min(pr.previewLength, pr.totalLength)),
                        isTruncated |-> pr.totalLength > pr.previewLength]))]
     /\ UNCHANGED <<fs, cancelRequested, original, utility>>
     /\ UNCHANGED callVars

\* the caller asks for the compression in progress to stop.  No parameter
\* of a handler method and no field of its options carries the request,
\* so no step of the method reads it
Cancel(p) ==
  /\ procs[p].pc = "stream"
  /\ procs[p].op = "compress"
  /\ ~cancelRequested
  /\ cancelRequested' = TRUE
  /\ UNCHANGED <<fs, procs, original, utility>>
  /\ UNCHANGED callVars

(***************************************************************************)
(* The tools unzip and list-zip-contents, one await at a time.             *)
(***************************************************************************)
\* the refinement "normalize(path) === path" of the path parameters
IsNormalized(p) == pathNormalize(p) = p

\* the refinement of outputFileName
NoSeparator(name) == ~includes(name, <<Slash>>) /\ ~includes(name, <<"\\">>)

\* unzipParameters and listZipContentsParameters
ToolValidate(call) ==
  /\ Len(call.sourcePath) >= 1
  /\ IsNormalized(call.sourcePath)
  /\ endsWith(call.sourcePath, ExtGz)
  /\ IF call.op = "unzip"
     THEN /\ (Len(call.target) = 0 \/ IsNormalized(call.target))
          /\ (Len(call.outputFileName) = 0 \/ NoSeparator(call.outputFileName))
     ELSE MinPreviewLength <= call.previewLength /\ call.previewLength <= MaxPreviewLength

\* the results of the tools: an error has isError and a text, a success
\* has a text only
ToolError(text, arg) ==
  [isError |-> TRUE, content |-> <<[type |-> "text", text |-> Msg(text, arg)]>>]

ToolSuccess(text, arg, data) ==
  [content |-> <<[type |-> "text", text |-> Msg(text, arg), data |-> data]>>]

\* a step of the tool fails and the tool returns the error res
ToolFailed(pr, res) == Ended([pr EXCEPT !.failures = @ + 1], res)

\* reportProgress({progress, total: 100, message})
Report(pr, progress) == [pr EXCEPT !.reports = Append(@, progress)]

\* a tool is called: the parameters are parsed against the schema of the
\* tool and execute starts on the parsed parameters
InvokeTool(p, call) ==
  /\ procs[p].pc \in {"idle", "done", "invalid"}
  /\ StreamCreated(fs) < MaxCreated
  /\ procs' = [procs EXCEPT ![p] =
                 [IdleProc EXCEPT !.pc = IF ToolValidate(call) THEN "start" ELSE "invalid",
                                  !.op = call.op,
                                  !.sourcePath = call.sourcePath, !.target = call.target,
                                  !.outputFileName = call.outputFileName,
                                  !.previewLength = call.previewLength,
                                  !.chunk = call.chunk]]
  /\ cancelRequested' = FALSE
  /\ UNCHANGED <<fs, original, utility>>
  /\ UNCHANGED callVars

\* fs.stat of the source; list-zip-contents then reports the start and
\* creates its streams
ToolStat(p) ==
  LET pr == procs[p]
  IN /\ pr.pc = "start"
     /\ pr.op \in {"unzip", "listZipContents"}
     /\ procs' = [procs EXCEPT ![p] =
          IF ~Exists(fs, pr.sourcePath)
          THEN Ended(pr, ToolError("Error: Cannot access file ", pr.sourcePath))
          ELSE IF ~isFile(fs, pr.sourcePath)
          THEN Ended(pr, ToolError("Error: is not a file ", pr.sourcePath))
          ELSE IF pr.op = "unzip"
          THEN [pr EXCEPT !.pc = "mkdir", !.sourceSize = getFileSize(fs, pr.sourcePath)]
          ELSE Report([pr EXCEPT !.pc = "stream", !.sourceSize = getFileSize(fs, pr.sourcePath)], 0)]
     /\ UNCHANGED <<fs, cancelRequested, original, utility>>
     /\ UNCHANGED callVars

\* the directory and the path unzip writes to
UnzipOutputDir(pr) ==
  IF Len(pr.target) > 0 THEN pr.target ELSE pathDirname(pr.sourcePath)

UnzipOutputPath(pr) ==
  LET srcFilename == pathBasename(pr.sourcePath)
      baseOutputFileName ==
        IF Len(pr.outputFileName) > 0 THEN pr.outputFileName
        ELSE IF endsWith(srcFilename, ExtGz) THEN dropRight(srcFilename, 3)
        ELSE srcFilename \o <<".", "e", "x", "t", "r", "a", "c", "t", "e", "d">>
  IN pathJoin(UnzipOutputDir(pr), baseOutputFileName)

\* unzip: fs.mkdir(outputDir, {recursive: true}), the start is reported
\* and the streams are created
ToolMkdir(p) ==
  LET pr == procs[p]
      made == fsMkdir(fs, UnzipOutputDir(pr))
  IN /\ pr.pc = "mkdir"
     /\ pr.op = "unzip"
     /\ fs' = made.fs
     /\ procs' = [procs EXCEPT ![p] =
          IF made.threw
          THEN Ended(pr, ToolError("Error: Cannot create output directory ", UnzipOutputDir(pr)))
          ELSE Report([pr EXCEPT !.pc = "open"], 0)]
     /\ UNCHANGED <<cancelRequested, original, utility>>
     /\ UNCHANGED callVars

\* unzip: the pipeline opens the output file
ToolOpen(p) ==
  LET pr == procs[p]
      opened == fsOpenWrite(fs, UnzipOutputPath(pr))
  IN /\ pr.pc = "open"
     /\ pr.op = "unzip"
     /\ fs' = opened.fs
     /\ procs' = [procs EXCEPT ![p] =
          IF opened.threw
          THEN ToolFailed(pr, ToolError("Error during decompression: ", <<"open">>))
          ELSE [pr EXCEPT !.pc = "stream"]]
     /\ UNCHANGED <<cancelRequested, original, utility>>
     /\ UNCHANGED callVars

\* MemoryWritable._write: a chunk is kept up to maxLength bytes in all,
\* and the callback is called in every case
MemoryWrite(pr, chunk) ==
  IF pr.totalLength < pr.previewLength
  THEN LET remainingLength == pr.previewLength - pr.totalLength
           kept == IF Len(chunk) > remainingLength THEN SubSeq(chunk, 1, remainingLength)
                   ELSE chunk
       IN [pr EXCEPT !.chunks = @ \o kept, !.totalLength = @ + Len(kept)]
  ELSE pr

\* the text of the error results of a failed pipeline
ToolPipelineError(pr) ==
  IF pr.op = "unzip" THEN ToolError("Error during decompression: ", <<"stream">>)
  ELSE ToolError("Error reading compressed file contents: ", <<"stream">>)

\* the source stream reads one chunk: the 'data' listener reports the
\* progress, gunzip decompresses the chunk and the output file or the
\* MemoryWritable receives the bytes
ToolChunk(p) ==
  LET pr == procs[p]
      bytes == ReadAt(fs, pr.sourcePath, pr.processedBytes, pr.chunk)
      first == pr.processedBytes = 0
      out == IF first THEN Tail(bytes) ELSE bytes
      read == [pr EXCEPT !.processedBytes = @ + Len(bytes), !.reads = @ + 1]
      told == Report(read, IF pr.op = "unzip"
                           THEN MathRound(read.processedBytes * 100, pr.sourceSize)
                           ELSE Min(100, MathRound(read.processedBytes * 100, pr.sourceSize)))
  IN /\ pr.pc = "stream"
     /\ pr.op \in {"unzip", "listZipContents"}
     /\ Len(bytes) > 0
     /\ IF first /\ ~IsGzipData(bytes)
        THEN /\ fs' = fs
             /\ procs' = [procs EXCEPT ![p] = ToolFailed(told, ToolPipelineError(pr))]
        ELSE IF pr.op = "unzip"
        THEN /\ fs' = fsWrite(fs, UnzipOutputPath(pr),
                              fs[Resolve(UnzipOutputPath(pr))].data \o out)
             /\ procs' = [procs EXCEPT ![p] = told]
        ELSE /\ fs' = fs
             /\ procs' = [procs EXCEPT ![p] = MemoryWrite(told, out)]
     /\ UNCHANGED <<cancelRequested, original, utility>>
     /\ UNCHANGED callVars

\* the longest preview list-zip-contents prints
FormattedPreviewLimit == 500

\* the source is read to its end and the pipeline settles; list-zip-contents
\* reports the end and returns the preview
ToolEndOfSource(p) ==
  LET pr == procs[p]
  IN /\ pr.pc = "stream"
     /\ pr.op \in {"unzip", "listZipContents"}
     /\ Len(ReadAt(fs, pr.sourcePath, pr.processedBytes, pr.chunk)) = 0
     /\ procs' = [procs EXCEPT ![p] =
          IF pr.processedBytes = 0 THEN ToolFailed(pr, ToolPipelineError(pr))
          ELSE IF pr.op = "unzip" THEN [pr EXCEPT !.pc = "finish"]
          ELSE Ended(Report(pr, 100),
                     ToolSuccess("File Information: ", pr.sourcePath,
                                 [fileSize |-> pr.sourceSize,
                                  preview |-> IF Len(pr.chunks) > FormattedPreviewLimit
                                              THEN SubSeq(pr.chunks, 1, FormattedPreviewLimit)
                                              ELSE pr.chunks]))]
     /\ UNCHANGED <<fs, cancelRequested, original, utility>>
     /\ UNCHANGED callVars

\* a stream of the pipeline emits 'error': the tool returns the error
ToolStreamError(p) ==
  LET pr == procs[p]
  IN /\ pr.pc = "stream"
     /\ pr.op \in {"unzip", "listZipContents"}
     /\ procs' = [procs EXCEPT ![p] = ToolFailed(pr, ToolPipelineError(pr))]
     /\ UNCHANGED <<fs, cancelRequested, original, utility>>
     /\ UNCHANGED callVars

\* the extraction ratio of unzip: ((extracted / compressed) - 1) * 100,
\* signed, as a number of hundredths of a percent
extractionRatio(extractedSize, fileSize) ==
  IF fileSize = 0 THEN NotFinite
  ELSE IF extractedSize >= fileSize
  THEN MathRound((extractedSize - fileSize) * 10000, fileSize)
  ELSE 0 - MathRound((fileSize - extractedSize) * 10000, fileSize)

\* unzip after the pipeline: fs.stat of the output, the end is reported
\* and the result is returned
ToolFinish(p) ==
  LET pr == procs[p]
      size == getFileSize(fs, UnzipOutputPath(pr))
  IN /\ pr.pc = "finish"
     /\ pr.op = "unzip"
     /\ procs' = [procs EXCEPT ![p] =
          Ended(Report(pr, 100),
                ToolSuccess("File successfully decompressed to: ", UnzipOutputPath(pr),
                            [fileSize |-> pr.sourceSize,
                             extractedSize |-> size,
                             extractionRatio |-> extractionRatio(size, pr.sourceSize)]))]
     /\ UNCHANGED <<fs, cancelRequested, original, utility>>
     /\ UNCHANGED callVars

(***************************************************************************)
(* The tool zip-folder.                                                    *)
(***************************************************************************)
\* zipFolderParameters
ZipFolderValidate(call) ==
  /\ Len(call.sourcePath) >= 1
  /\ IsNormalized(call.sourcePath)
  /\ (Len(call.target) = 0 \/ IsNormalized(call.target))
  /\ (Len(call.outputFileName) = 0 \/ NoSeparator(call.outputFileName))

\* getFilesRecursively: the keys of the files under the directory dir
FilesUnder(f, dir) ==
  {k \in DOMAIN f : /\ Len(k) > Len(dir)
                    /\ SubSeq(k, 1, Len(dir)) = dir
                    /\ f[k].kind = "file"}

\* the orders in which readdir may list the files S
Orders(S) ==
  {s \in [1..Cardinality(S) -> S] : \A i, j \in 1..Cardinality(S) : s[i] = s[j] => i = j}

RECURSIVE SumSizes(_, _)
\* the first loop over allFiles: the sizes fs.stat gives are added up
SumSizes(f, files) ==
  IF Len(files) = 0 THEN 0
  ELSE Len(f[Head(files)].data) + SumSizes(f, Tail(files))

\* an entry of the tar stream: a header that carries the size, then the
\* bytes of the file
TarEntry(data) == <<Len(data)>> \o data

RECURSIVE Pack(_, _, _)
\* the second loop over allFiles: a file that is read becomes an entry, a
\* file whose read fails is logged by console.warn and left out
Pack(f, files, unreadable) ==
  IF Len(files) = 0 THEN <<>>
  ELSE IF Head(files) \in unreadable THEN Pack(f, Tail(files), unreadable)
  ELSE TarEntry(f[Head(files)].data) \o Pack(f, Tail(files), unreadable)

RECURSIVE PackReports(_, _, _, _, _)
\* the progress the second loop reports after each file it has read
PackReports(f, files, unreadable, processedSize, totalSize) ==
  IF Len(files) = 0 THEN <<>>
  ELSE IF Head(files) \in unreadable
  THEN PackReports(f, Tail(files), unreadable, processedSize, totalSize)
  ELSE LET size == processedSize + Len(f[Head(files)].data)
       IN <<IF totalSize = 0 THEN NotFinite ELSE 10 + MathRound(size * 80, totalSize)>>
            \o PackReports(f, Tail(files), unreadable, size, totalSize)

TarGz == <<".", "t", "a", "r", ".", "g", "z">>

\* execute of zip-folder with parameters call, readdir listing the files
\* in the order allFiles and fs.readFile failing on the files unreadable
zipFolderExecute(pr, f, allFiles, unreadable) ==
  LET targetDir == UnzipOutputDir(pr)
      made == fsMkdir(f, targetDir)
      targetName == IF Len(pr.outputFileName) > 0 THEN pr.outputFileName
                    ELSE pathBasename(pr.sourcePath) \o TarGz
      targetPath == pathJoin(targetDir, targetName)
      opened == fsOpenWrite(made.fs, targetPath)
      totalSize == SumSizes(f, allFiles)
      written == fsWrite(opened.fs, targetPath, Gzip(Pack(f, allFiles, unreadable)))
      compressedSize == getFileSize(written, targetPath)
      scanned == Report(Report(pr, 0), 10)
      packed == [scanned EXCEPT
                   !.reports = @ \o PackReports(f, allFiles, unreadable, 0, totalSize),
                   !.reads = Len(allFiles),
                   !.failures = Cardinality({i \in 1..Len(allFiles) : allFiles[i] \in unreadable})]
  IN IF ~Exists(f, pr.sourcePath)
     THEN [proc |-> Ended(pr, ToolError("Error: Cannot access folder ", pr.sourcePath)), fs |-> f]
     ELSE IF ~isDirectory(f, pr.sourcePath)
     THEN [proc |-> Ended(pr, ToolError("Error: is not a folder ", pr.sourcePath)), fs |-> f]
     ELSE IF made.threw
     THEN [proc |-> Ended(pr, ToolError("Cannot create output directory: ", targetDir)), fs |-> f]
     ELSE IF Len(pr.outputFileName) = 0 /\ Exists(made.fs, targetPath)
     THEN [proc |-> Ended(pr, ToolError("Warning: Output file already exists ", targetPath)),
           fs |-> made.fs]
     ELSE IF Len(allFiles) = 0
     THEN [proc |-> Ended(Report(pr, 0), ToolError("Warning: Folder is empty ", pr.sourcePath)),
           fs |-> made.fs]
     ELSE IF opened.threw
     THEN [proc |-> ToolFailed(packed, ToolError("Error during compression process: ", <<"open">>)),
           fs |-> made.fs]
     ELSE [proc |-> Ended(Report(packed, 100),
                          ToolSuccess("Compression successful: ", pr.sourcePath,
                                      [targetPath |-> targetPath,
                                       fileCount |-> Len(allFiles),
                                       originalSize |-> totalSize,
                                       compressedSize |-> compressedSize,
                                       compressionRatio |->
                                         MathRound(totalSize * 100, compressedSize)])),
           fs |-> written]

\* a call of the tool zip-folder
ZipFolder(p, call) ==
  /\ procs[p].pc \in {"idle", "done", "invalid"}
  /\ StreamCreated(fs) < MaxCreated
  /\ IF ~ZipFolderValidate(call)
     THEN /\ procs' = [procs EXCEPT ![p] =
                         [IdleProc EXCEPT !.pc = "invalid", !.op = "zipFolder",
                                          !.sourcePath = call.sourcePath,
                                          !.target = call.target,
                                          !.outputFileName = call.outputFileName]]
          /\ fs' = fs
     ELSE \E allFiles \in Orders(FilesUnder(fs, Resolve(call.sourcePath))) :
            \E unreadable \in SUBSET FilesUnder(fs, Resolve(call.sourcePath)) :
              \E r \in {zipFolderExecute([IdleProc EXCEPT !.op = "zipFolder",
                                                          !.sourcePath = call.sourcePath,
                                                          !.target = call.target,
                                                          !.outputFileName = call.outputFileName],
                                         fs, allFiles, unreadable)} :
                 /\ procs' = [procs EXCEPT ![p] = r.proc]
                 /\ fs' = r.fs
  /\ cancelRequested' = FALSE
  /\ UNCHANGED <<original, utility>>
  /\ UNCHANGED callVars

(***************************************************************************)
(* The handler methods called with a progress callback, and the tools.     *)
(***************************************************************************)
HandlerCall(op, sources, targets, previews) ==
  [op : {op}, sourcePath : sources, target : targets, previewLength : previews,
   chunk : 1..MaxChunk, sink : {TRUE}]

ToolCall(op, sources, targets, names, previews) ==
  [op : {op}, sourcePath : sources, target : targets, outputFileName : names,
   previewLength : previews, chunk : 1..MaxChunk]

PathDotted == <<"o", "/", ".", ".", "/", "b", ".", "g", "z">>

\* the calls of the tool zip-folder
ZipFolderCalls ==
  [sourcePath : {DirD, PathA, PathMissing}, target : {None, DirOut},
   outputFileName : {None, NameSub}]

\* the calls of the tools unzip and list-zip-contents
ToolCalls ==
  ToolCall("unzip", {PathBGz, PathUp, PathDotted, PathA}, {None}, {None}, {0})
    \cup ToolCall("unzip", {PathBGz}, {DirOut}, {None, NameSub}, {0})
    \cup ToolCall("listZipContents", {PathBGz, PathUp}, {None}, {None}, 0..MaxPreview)

\* the calls of the handler methods
HandlerCalls ==
  HandlerCall("compress", {PathA}, {NameAGz}, {0})
    \cup HandlerCall("compress", {PathE}, {PathEGz}, {0})
    \cup HandlerCall("compress", {PathMissing}, {NameAGz}, {0})
    \cup HandlerCall("decompress", {PathBGz, PathA}, {DirOut}, {0})
    \cup HandlerCall("listContents", {PathBGz}, {None}, 1..MaxPreview)

StreamProcs == {1}

InitStream ==
  /\ handlers = <<>>
  /\ extensionMap = <<>>
  /\ regLog = <<>>
  /\ phase = "serving"
  /\ fs = StreamFs
  /\ request = NoRequest
  /\ outcome = "none"
  /\ result = NoResult
  /\ trace = <<>>
  /\ procs = [p \in ProcIds |-> IdleProc]
  /\ cancelRequested = FALSE
  /\ original = NoOriginal
  /\ utility = NoUtility

NextStream ==
  \/ \E p \in StreamProcs, call \in HandlerCalls : Invoke(p, call)
  \/ \E p \in StreamProcs, call \in ToolCalls : InvokeTool(p, call)
  \/ \E p \in StreamProcs : ToolStat(p)
  \/ \E p \in StreamProcs : ToolMkdir(p)
  \/ \E p \in StreamProcs : ToolOpen(p)
  \/ \E p \in StreamProcs : ToolChunk(p)
  \/ \E p \in StreamProcs : ToolEndOfSource(p)
  \/ \E p \in StreamProcs : ToolStreamError(p)
  \/ \E p \in StreamProcs : ToolFinish(p)
  \/ \E p \in StreamProcs, call \in ZipFolderCalls : ZipFolder(p, call)
  \/ \E p \in StreamProcs : Start(p)
  \/ \E p \in StreamProcs : EnsureDir(p)
  \/ \E p \in StreamProcs : Open(p)
  \/ \E p \in StreamProcs : Chunk(p)
  \/ \E p \in StreamProcs : EndOfSource(p)
  \/ \E p \in StreamProcs : StreamError(p)
  \/ \E p \in StreamProcs : Finish(p)
  \/ \E p \in StreamProcs : GunzipData(p)
  \/ \E p \in StreamProcs : ListEnd(p)
  \/ \E p \in StreamProcs : Cancel(p)

SpecStream == InitStream /\ [][NextStream]_vars

(***************************************************************************)
(* Two calls of the unified compression tool in progress at once.  Each    *)
(* runs execute up to the call of the handler as one step, then the        *)
(* handler method one await at a time; no progress callback is passed.     *)
(***************************************************************************)
\* the tool is called with params: execute starts
Submit(p, params, chunk) ==
  /\ procs[p].pc = "idle"
  /\ Validate(params)
  /\ procs' = [procs EXCEPT ![p] =
                 [IdleProc EXCEPT !.pc = "dispatch",
                                  !.op = IF params.operation = "list" THEN "listContents"
                                         ELSE params.operation,
                                  !.params = params,
                                  !.sourcePath = params.sourcePath,
                                  !.previewLength = IF params.previewLength = Absent
                                                    THEN DefaultPreviewLength
                                                    ELSE params.previewLength,
                                  !.chunk = chunk]]
  /\ UNCHANGED <<fs, cancelRequested, original, utility>>
  /\ UNCHANGED callVars

\* Dispatch with a slip: compress does not check that the target exists
DispatchUnchecked(p) ==
  LET pr == procs[p]
      params == pr.params
      sourcePath == params.sourcePath
      handler == getHandlerByFormat(handlers, params.format)
      extensions == getSupportedExtensions(handler)
      defaultExt == IF Len(extensions) > 0 THEN extensions[1] ELSE <<>>
      targetPath == resolveOutputPath(sourcePath, params.outputDirectory,
                                      params.outputFileName, defaultExt)
      targetDir == IF Len(params.outputDirectory) > 0 THEN params.outputDirectory
                   ELSE pathDirname(sourcePath)
      made == ensureDir(fs, targetDir)
      notValid == createErrorResult(Msg("File is not a valid file: ", sourcePath),
                                    Details("Expected file extensions: ", extensions))
      refused(text, path, details) == Ended(pr, createErrorResult(Msg(text, path), details))
  IN /\ pr.pc = "dispatch"
     /\ IF handler = Undefined
        THEN /\ procs' = [procs EXCEPT ![p] =
                  refused("Unsupported format: ", params.format,
                          Details("Supported formats are: ", getAllFormats(handlers)))]
             /\ fs' = fs
        ELSE IF ~fileExists(fs, sourcePath)
        THEN /\ procs' = [procs EXCEPT ![p] =
                  refused("Source path does not exist: ", sourcePath, NoDetails)]
             /\ fs' = fs
        ELSE IF pr.op = "compress"
        THEN /\ procs' = [procs EXCEPT ![p] =
                  IF ~isDirectory(fs, sourcePath) /\ ~isFile(fs, sourcePath)
                  THEN refused("Source path must be a file or directory: ", sourcePath, NoDetails)
                  ELSE [pr EXCEPT !.pc = "start", !.target = targetPath]]
             /\ fs' = fs
        ELSE IF ~isFile(fs, sourcePath)
        THEN /\ procs' = [procs EXCEPT ![p] =
                  refused("Source path must be a file: ", sourcePath, NoDetails)]
             /\ fs' = fs
        ELSE IF ~isFormatValid(handler, sourcePath)
        THEN /\ procs' = [procs EXCEPT ![p] = Ended(pr, notValid)]
             /\ fs' = fs
        ELSE IF pr.op = "listContents"
        THEN /\ procs' = [procs EXCEPT ![p] = [pr EXCEPT !.pc = "start"]]
             /\ fs' = fs
        ELSE /\ procs' = [procs EXCEPT ![p] =
                  IF made.threw
                  THEN Ended(pr, createErrorResult(
                                   Msg("Error during operation: ", <<params.operation>>), Stack))
                  ELSE [pr EXCEPT !.pc = "start", !.target = targetDir]]
             /\ fs' = made.fs
     /\ UNCHANGED <<cancelRequested, original, utility>>
     /\ UNCHANGED callVars

\* execute up to "return handler.method(...)": the handler is looked up,
\* the source and the target are checked, decompress creates its directory
Dispatch(p) ==
  LET pr == procs[p]
      params == pr.params
      sourcePath == params.sourcePath
      handler == getHandlerByFormat(handlers, params.format)
      extensions == getSupportedExtensions(handler)
      defaultExt == IF Len(extensions) > 0 THEN extensions[1] ELSE <<>>
      targetPath == resolveOutputPath(sourcePath, params.outputDirectory,
                                      params.outputFileName, defaultExt)
      targetDir == IF Len(params.outputDirectory) > 0 THEN params.outputDirectory
                   ELSE pathDirname(sourcePath)
      made == ensureDir(fs, targetDir)
      notValid == createErrorResult(Msg("File is not a valid file: ", sourcePath),
                                    Details("Expected file extensions: ", extensions))
      refused(text, path, details) == Ended(pr, createErrorResult(Msg(text, path), details))
  IN /\ pr.pc = "dispatch"
     /\ IF handler = Undefined
        THEN /\ procs' = [procs EXCEPT ![p] =
                  refused("Unsupported format: ", params.format,
                          Details("Supported formats are: ", getAllFormats(handlers)))]
             /\ fs' = fs
        ELSE IF ~fileExists(fs, sourcePath)
        THEN /\ procs' = [procs EXCEPT ![p] =
                  refused("Source path does not exist: ", sourcePath, NoDetails)]
             /\ fs' = fs
        ELSE IF pr.op = "compress"
        THEN /\ procs' = [procs EXCEPT ![p] =
                  IF ~isDirectory(fs, sourcePath) /\ ~isFile(fs, sourcePath)
                  THEN refused("Source path must be a file or directory: ", sourcePath, NoDetails)
                  ELSE IF fileExists(fs, targetPath)
                  THEN refused("Output file already exists: ", targetPath,
                               Details("Please specify a different output file name or directory",
                                       <<>>))
                  ELSE [pr EXCEPT !.pc = "start", !.target = targetPath]]
             /\ fs' = fs
        ELSE IF ~isFile(fs, sourcePath)
        THEN /\ procs' = [procs EXCEPT ![p] =
                  refused("Source path must be a file: ", sourcePath, NoDetails)]
             /\ fs' = fs
        ELSE IF ~isFormatValid(handler, sourcePath)
        THEN /\ procs' = [procs EXCEPT ![p] = Ended(pr, notValid)]
             /\ fs' = fs
        ELSE IF pr.op = "listContents"
        THEN /\ procs' = [procs EXCEPT ![p] = [pr EXCEPT !.pc = "start"]]
             /\ fs' = fs
        ELSE /\ procs' = [procs EXCEPT ![p] =
                  IF made.threw
                  THEN Ended(pr, createErrorResult(
                                   Msg("Error during operation: ", <<params.operation>>), Stack))
                  ELSE [pr EXCEPT !.pc = "start", !.target = targetDir]]
             /\ fs' = made.fs
     /\ UNCHANGED <<cancelRequested, original, utility>>
     /\ UNCHANGED callVars

NameCGz == <<"c", ".", "g", "z">>
PathOB == <<"o", "/", "b">>

\* the calls made while another call is in progress
ConcurrentRequests ==
  Params({"compress"}, {FmtGzip}, {PathA}, {None, DirOut}, {None}, {Absent})
    \cup Params({"compress"}, {FmtGzip}, {PathOB}, {None}, {NameCGz}, {Absent})
    \cup Params({"compress"}, {FmtGzip}, {PathE}, {None}, {NameAGz}, {Absent})
    \cup Params({"decompress"}, {FmtGzip}, {PathBGz}, {None, DirOut}, {None}, {Absent})
    \cup Params({"decompress"}, {FmtGzip}, {NameAGz}, {DirOut}, {None}, {Absent})
    \cup Params({"list"}, {FmtGzip, FmtNew}, {PathBGz, NameAGz}, {None}, {None}, {MaxPreview})

InitConcurrent ==
  /\ handlers = registerHandlers(<<>>, FmtGzip, "gzipA")
  /\ extensionMap = registerExtensions(<<>>, "gzipA")
  /\ regLog = <<>>
  /\ phase = "serving"
  /\ fs = StreamFs
  /\ request = NoRequest
  /\ outcome = "none"
  /\ result = NoResult
  /\ trace = <<>>
  /\ procs = [p \in ProcIds |-> IdleProc]
  /\ cancelRequested = FALSE
  /\ original = NoOriginal
  /\ utility = NoUtility

NextConcurrent ==
  \/ \E p \in ProcIds, params \in ConcurrentRequests, chunk \in 1..MaxChunk :
       Submit(p, params, chunk)
  \/ \E p \in ProcIds : Dispatch(p)
  \/ \E p \in ProcIds : Start(p)
  \/ \E p \in ProcIds : EnsureDir(p)
  \/ \E p \in ProcIds : Open(p)
  \/ \E p \in ProcIds : Chunk(p)
  \/ \E p \in ProcIds : EndOfSource(p)
  \/ \E p \in ProcIds : Finish(p)
  \/ \E p \in ProcIds : GunzipData(p)
  \/ \E p \in ProcIds : ListEnd(p)

SpecConcurrent == InitConcurrent /\ [][NextConcurrent]_vars

(***************************************************************************)
(* A compress call followed by the decompress call of the archive it made. *)
(***************************************************************************)
\* the bytes a file of the model may hold
Bytes == {1, GzMagic}

RECURSIVE Datas(_)
\* the byte sequences of at most n bytes
Datas(n) ==
  IF n = 0 THEN {<<>>}
  ELSE Datas(n - 1) \cup {Append(d, b) : d \in {x \in Datas(n - 1) : Len(x) = n - 1}, b \in Bytes}

\* the working directory with one regular file, named a or b.gz
RoundTripFs(name, data) ==
  (<<>> :> DirNode)
    @@ (<< <<"w">> >> :> DirNode)
    @@ (<< <<"w">>, name >> :> FileNode(data))

InitRoundTrip ==
  /\ handlers = registerHandlers(<<>>, FmtGzip, "gzipA")
  /\ extensionMap = registerExtensions(<<>>, "gzipA")
  /\ regLog = <<[name |-> FmtGzip, handler |-> "gzipA"]>>
  /\ phase = "serving"
  /\ \E name \in {PathA, PathBGz}, data \in Datas(MaxData) : fs = RoundTripFs(name, data)
  /\ request = NoRequest
  /\ outcome = "none"
  /\ result = NoResult
  /\ trace = <<>>
  /\ procs = [p \in ProcIds |-> IdleProc]
  /\ cancelRequested = FALSE
  /\ original = NoOriginal
  /\ utility = NoUtility

\* the tool call with parameters params, a stream error occurring or not
CallWith(params, ioFail) ==
  \E r \in {execute(params, handlers, fs, [ioFail |-> ioFail, chunk |-> 1, hout |-> "success"])} :
     /\ request' = params
     /\ outcome' = r.outcome
     /\ result' = r.result
     /\ trace' = r.trace
     /\ fs' = r.fs

\* a regular file is compressed, into its own directory or into another
CompressFile(sourcePath, outputDirectory, ioFail) ==
  /\ outcome = "none"
  /\ isFile(fs, sourcePath)
  /\ CallWith([operation |-> "compress", format |-> FmtGzip, sourcePath |-> sourcePath,
               outputDirectory |-> outputDirectory, outputFileName |-> None,
               previewLength |-> Absent], ioFail)
  /\ original' = [bytes |-> fs[Resolve(sourcePath)].data,
                  archive |-> resolveOutputPath(sourcePath, outputDirectory, None, ExtGz),
                  ioFail |-> ioFail]
  /\ UNCHANGED <<handlers, extensionMap, regLog, phase, procs, cancelRequested, utility>>

\* the archive the compress call made is decompressed, into its own
\* directory or into another
DecompressArchive(outputDirectory, ioFail) ==
  /\ request.operation = "compress"
  /\ outcome = "returned"
  /\ ~result.isError
  /\ CallWith([operation |-> "decompress", format |-> FmtGzip,
               sourcePath |-> result.content.data.targetPath,
               outputDirectory |-> outputDirectory, outputFileName |-> None,
               previewLength |-> Absent], ioFail)
  /\ original' = [original EXCEPT !.ioFail = ioFail]
  /\ UNCHANGED <<handlers, extensionMap, regLog, phase, procs, cancelRequested, utility>>

NextRoundTrip ==
  \/ \E sourcePath \in {PathA, PathBGz}, outputDirectory \in {None, DirOut}, ioFail \in BOOLEAN :
       CompressFile(sourcePath, outputDirectory, ioFail)
  \/ \E outputDirectory \in {None, DirOut, DirOther}, ioFail \in BOOLEAN :
       DecompressArchive(outputDirectory, ioFail)

SpecRoundTrip == InitRoundTrip /\ [][NextRoundTrip]_vars

(***************************************************************************)
(* The methods of CompressionUtils called on their own, on every argument  *)
(* of a bounded set.                                                       *)
(***************************************************************************)
MaxPathLen == 4

\* the characters of the paths: a letter, the dot and the separator
PathChars == {"a", ".", Slash}

RECURSIVE Texts(_)
\* the texts of at most n characters
Texts(n) ==
  IF n = 0 THEN {<<>>}
  ELSE Texts(n - 1) \cup {Append(t, c) : t \in {x \in Texts(n - 1) : Len(x) = n - 1},
                                        c \in PathChars}

InitUtils ==
  /\ handlers = <<>>
  /\ extensionMap = <<>>
  /\ regLog = <<>>
  /\ phase = "serving"
  /\ fs = InitFs
  /\ request = NoRequest
  /\ outcome = "none"
  /\ result = NoResult
  /\ trace = <<>>
  /\ procs = [p \in ProcIds |-> IdleProc]
  /\ cancelRequested = FALSE
  /\ original = NoOriginal
  /\ utility = NoUtility

\* CompressionUtils.normalizePath(filePath)
NormalizePath(filePath) ==
  /\ utility' = [method |-> "normalizePath", filePath |-> filePath,
                 gave |-> normalizePath(filePath)]
  /\ UNCHANGED <<fs, procs, cancelRequested, original>>
  /\ UNCHANGED callVars

\* the largest totalBytes of the calls of formatProgress
MaxTotal == 6

\* CompressionUtils.formatProgress(bytesProcessed, totalBytes, stage)
FormatProgress(bytesProcessed, totalBytes) ==
  /\ bytesProcessed <= totalBytes
  /\ utility' = [method |-> "formatProgress", bytesProcessed |-> bytesProcessed,
                 totalBytes |-> totalBytes,
                 gave |-> formatProgress(bytesProcessed, totalBytes, "processing")]
  /\ UNCHANGED <<fs, procs, cancelRequested, original>>
  /\ UNCHANGED callVars

PathOQ == <<"o", "/", "q">>
PathAX == <<"a", "/", "x">>
PathOUpP == <<"o", "/", ".", ".", "/", "p">>

\* the paths given to ensureDir: absent ones, one and two levels down, the
\* working directory, regular files, a path under a regular file
DirPaths == {DirOut, PathOQ, DirOther, PathOUpP, PathCwd, PathA, PathUp, PathAX}

\* CompressionUtils.ensureDir(dirPath)
EnsureDirectory(dirPath) ==
  \E made \in {ensureDir(fs, dirPath)} :
     /\ utility' = [method |-> "ensureDir", dirPath |-> dirPath, before |-> fs,
                    threw |-> made.threw]
     /\ fs' = made.fs
     /\ UNCHANGED <<procs, cancelRequested, original>>
     /\ UNCHANGED callVars

NextUtils ==
  \/ \E filePath \in Texts(MaxPathLen) : NormalizePath(filePath)
  \/ \E totalBytes \in 0..MaxTotal, bytesProcessed \in 0..MaxTotal :
       FormatProgress(bytesProcessed, totalBytes)
  \/ \E dirPath \in DirPaths : EnsureDirectory(dirPath)

SpecUtils == InitUtils /\ [][NextUtils]_vars

(***************************************************************************)
(* Vocabulary of the properties.                                           *)
(***************************************************************************)
\* a step that is a tool call: only calls are made once the server serves
CallStep == phase = "serving"

\* the new request passed the schema and its format resolved to a handler
Dispatched(params) ==
  Validate(params) /\ getHandlerByFormat(handlers, params.format) # Undefined

IsFailure(r) == r.isError

FailureText(r, text) == r.isError /\ r.error.message.text = text

HandlerInvoked(t) ==
  \E i \in 1..Len(t) : t[i] \in {"handler.compress", "handler.decompress", "handler.listContents"}

\* p has a segment ".."
HasParentSegment(p) == \E i \in 1..Len(Split(p)) : Split(p)[i] = DotDot

\* the target path execute computes for a compress request
TargetOf(params) ==
  resolveOutputPath(params.sourcePath, params.outputDirectory, params.outputFileName,
                    getSupportedExtensions(getHandlerByFormat(handlers, params.format))[1])

(***************************************************************************)
(* C1.  Every dispatcher operation on a path with a ".." segment returns   *)
(* the path-traversal Failure and changes nothing in the file system.      *)
(* The dispatcher never calls normalizePath: the property is violated.     *)
(***************************************************************************)
TraversalText == "Path traversal detected. Path cannot contain \"..\""

C1_TraversalRejected ==
  [][(CallStep /\ HasParentSegment(request'.sourcePath))
       => (/\ outcome' = "returned"
           /\ FailureText(result', TraversalText)
           /\ fs' = fs)]_vars

(***************************************************************************)
(* C2.  A call whose sourcePath does not exist returns a Failure, the      *)
(* source-not-found one whenever the format resolved to a handler; no      *)
(* handler method is invoked and the file system is left as it was, so a   *)
(* missing outputDirectory is still missing.                               *)
(***************************************************************************)
C2_MissingSource ==
  [][(CallStep /\ Validate(request') /\ ~fileExists(fs, request'.sourcePath))
       => (/\ outcome' = "returned"
           /\ IsFailure(result')
           /\ (Dispatched(request') => FailureText(result', "Source path does not exist: "))
           /\ ~HandlerInvoked(trace')
           /\ fs' = fs)]_vars

C2_Witness ==
  /\ outcome = "returned"
  /\ request.operation = "compress"
  /\ request.outputDirectory = DirOut
  /\ ~fileExists(fs, request.sourcePath)
  /\ ~fileExists(fs, DirOut)
  /\ FailureText(result, "Source path does not exist: ")

(***************************************************************************)
(* C3.  A compress call whose target path exists returns the               *)
(* existing-output Failure without invoking handler.compress and without   *)
(* changing the file system; and when a compress with an auto-derived name *)
(* succeeded under a GzipHandler, the same request made again fails that   *)
(* way and leaves the first output as it is.                               *)
(***************************************************************************)
ExistingOutputText == "Output file already exists: "

C3_ExistingOutput ==
  [][/\ (/\ CallStep
         /\ Dispatched(request')
         /\ request'.operation = "compress"
         /\ fileExists(fs, request'.sourcePath)
         /\ fileExists(fs, TargetOf(request')))
        => (/\ outcome' = "returned"
            /\ FailureText(result', ExistingOutputText)
            /\ ~HandlerInvoked(trace')
            /\ fs' = fs)
     /\ (/\ CallStep
         /\ outcome = "returned"
         /\ ~IsFailure(result)
         /\ request.operation = "compress"
         /\ request.outputFileName = None
         /\ ClassOf(getHandlerByFormat(handlers, request.format)) = "GzipHandler"
         /\ request' = request)
        => (/\ outcome' = "returned"
            /\ FailureText(result', ExistingOutputText)
            /\ fs' = fs)]_vars

C3_Witness ==
  /\ outcome = "returned"
  /\ request.operation = "compress"
  /\ request.sourcePath = PathA
  /\ request.outputFileName = None
  /\ FailureText(result, ExistingOutputText)
  /\ fs[Resolve(TargetOf(request))].data = Gzip(fs[Resolve(PathA)].data)

(***************************************************************************)
(* C4.  A compress call that gives an explicit outputFileName is never     *)
(* answered with the existing-output Failure.  execute checks the target   *)
(* whatever the origin of the name: the property is violated.              *)
(***************************************************************************)
C4_ExplicitNameBypasses ==
  (outcome = "returned" /\ request.operation = "compress" /\ request.outputFileName # None)
    => ~FailureText(result, ExistingOutputText)

(***************************************************************************)
(* C5.  An outputFileName with a path separator is rejected by the         *)
(* parameter schema before any I/O; that is, every compress request that   *)
(* execute hands to a handler has a target that is a direct child of the   *)
(* resolved output directory.  The schema accepts any string and the name  *)
(* is joined to the directory as it is: the property is violated.          *)
(***************************************************************************)
HasSeparator(name) == includes(name, <<Slash>>) \/ includes(name, <<"\\">>)

\* the directory a compress request asks its output to be put in
OutputDirectoryOf(params) ==
  IF Len(params.outputDirectory) > 0 THEN params.outputDirectory
  ELSE pathDirname(params.sourcePath)

DirectChild(target, dir) ==
  /\ Len(Resolve(target)) = Len(Resolve(dir)) + 1
  /\ SubSeq(Resolve(target), 1, Len(Resolve(dir))) = Resolve(dir)

C5_SeparatorRejected ==
  (request.operation = "compress" /\ outcome # "invalid" /\ HandlerInvoked(trace))
    => (/\ ~HasSeparator(request.outputFileName)
        /\ DirectChild(TargetOf(request), OutputDirectoryOf(request)))

(***************************************************************************)
(* C6.  execute never raises: whatever the handler does, also when its     *)
(* method throws or returns a promise that rejects, the call ends by       *)
(* returning a result.  The promise of the handler is returned unawaited   *)
(* from inside the try: the property is violated.                          *)
(***************************************************************************)
C6_NoExceptionEscapes == outcome # "rejected"

(***************************************************************************)
(* Vocabulary of the registry properties.                                  *)
(***************************************************************************)
\* a and b are the same letter, in the same or in the other case
SameLetter(a, b) ==
  \/ a = b
  \/ \E k \in 1..Len(UpperChars) : {a, b} = {UpperChars[k], LowerChars[k]}

\* s and t differ at most in the case of their letters
SameModuloCase(s, t) ==
  /\ Len(s) = Len(t)
  /\ \A i \in 1..Len(s) : SameLetter(s[i], t[i])

ExtGZ == <<".", "G", "Z">>

\* the names and the extensions that are looked up
LookupNames == FormatNames \cup {<<"N", "e", "w", "F", "o", "r", "m", "a", "t">>, <<"z", "i", "p">>}
LookupExtensions == {ExtGz, ExtGZ, ExtNew, ExtTarGz}

Reports(h, e) ==
  \E i \in 1..Len(getSupportedExtensions(h)) : SameModuloCase(getSupportedExtensions(h)[i], e)

\* the handler of the last register call of the log that satisfies Match
LastRegistered(Match(_)) ==
  LET hits == {i \in 1..Len(regLog) : Match(regLog[i])}
  IN IF hits = {} THEN Undefined
     ELSE regLog[CHOOSE i \in hits : \A j \in hits : j <= i].handler

(***************************************************************************)
(* C7.  Format names resolve without regard to case: after any sequence of *)
(* register calls, two names that differ only in the case of their letters *)
(* resolve to the same handler, or both to none.                           *)
(***************************************************************************)
C7_CaseInsensitive ==
  \A n1, n2 \in LookupNames :
    SameModuloCase(n1, n2)
      => getHandlerByFormat(handlers, n1) = getHandlerByFormat(handlers, n2)

C7_Witness ==
  /\ \E i \in 1..Len(regLog) : regLog[i].name = FmtGZIP
  /\ getHandlerByFormat(handlers, FmtGzip) # Undefined
  /\ getHandlerByFormat(handlers, FmtGzip) = getHandlerByFormat(handlers, FmtGzipMixed)

(***************************************************************************)
(* C8.  Registration is last-write-wins: a format name resolves to the     *)
(* handler of the most recent register call under that name (compared      *)
(* without regard to case), an extension to the handler of the most recent *)
(* register call whose handler reports that extension (compared the same   *)
(* way); to none when there is no such call.                               *)
(***************************************************************************)
C8_LastWriteWins ==
  /\ \A n \in LookupNames :
       getHandlerByFormat(handlers, n)
         = LastRegistered(LAMBDA r : SameModuloCase(r.name, n))
  /\ \A e \in LookupExtensions :
       getHandlerByExtension(extensionMap, e)
         = LastRegistered(LAMBDA r : Reports(r.handler, e))

C8_Witness ==
  /\ Len(regLog) >= 2
  /\ SameModuloCase(regLog[1].name, regLog[2].name)
  /\ regLog[1].handler = "gzipA"
  /\ regLog[2].handler = "gzipB"
  /\ getHandlerByFormat(handlers, regLog[1].name) = "gzipB"
  /\ getHandlerByExtension(extensionMap, ExtGz) = "gzipB"

(***************************************************************************)
(* C9.  A call whose format is not registered returns the                  *)
(* unsupported-format Failure, which lists the registered format names;    *)
(* the check comes before the source is looked at, so also with a missing  *)
(* source this Failure is the result, no file-system or handler call is    *)
(* made and the file system is left as it was.                             *)
(***************************************************************************)
C9_UnsupportedFormat ==
  [][(/\ CallStep
      /\ Validate(request')
      /\ getHandlerByFormat(handlers, request'.format) = Undefined)
       => (/\ outcome' = "returned"
           /\ FailureText(result', "Unsupported format: ")
           /\ result'.error.message.arg = request'.format
           /\ result'.error.details.list = getAllFormats(handlers)
           /\ trace' = <<>>
           /\ fs' = fs)]_vars

C9_Witness ==
  /\ outcome = "returned"
  /\ FailureText(result, "Unsupported format: ")
  /\ result.error.details.list = <<FmtGzip>>
  /\ ~fileExists(fs, request.sourcePath)
  /\ trace = <<>>

(***************************************************************************)
(* C10.  Every result a call returns has exactly one variant: isError is   *)
(* false and there is content and no error, or isError is true and there   *)
(* is an error with a message and no content.                              *)
(***************************************************************************)
ExactlyOneVariant(r) ==
  \/ (~r.isError /\ DOMAIN r = {"isError", "content"})
  \/ (r.isError /\ DOMAIN r = {"isError", "error"} /\ "message" \in DOMAIN r.error)

C10_ExactlyOneVariant == outcome = "returned" => ExactlyOneVariant(result)

C10_Witness ==
  /\ outcome = "returned"
  /\ request.operation = "decompress"
  /\ ClassOf(getHandlerByFormat(handlers, request.format)) = "GzipHandler"
  /\ HandlerInvoked(trace)
  /\ result.isError
  /\ ExactlyOneVariant(result)

(***************************************************************************)
(* Vocabulary of the properties of an operation in progress.               *)
(***************************************************************************)
\* the operation pr has returned a success result
IsErrorOf(r) == "isError" \in DOMAIN r /\ r.isError

Succeeded(pr) == pr.pc = "done" /\ ~IsErrorOf(pr.result)

\* the operation pr has returned an error result
Failed(pr) == pr.pc = "done" /\ IsErrorOf(pr.result)

NonDecreasing(es) ==
  \A i \in 1..(Len(es) - 1) : es[i].percentComplete <= es[i + 1].percentComplete

\* the stage an operation reports while it runs
OperationStage(op) ==
  IF op = "compress" THEN "compressing"
  ELSE IF op = "decompress" THEN "decompressing"
  ELSE "reading"

(***************************************************************************)
(* C11.  The percentComplete values a successful operation reports to its  *)
(* progress callback never decrease and the last one is exactly 100, for   *)
(* every source size, the empty source included.  An empty source has      *)
(* totalBytes 0 and formatProgress then sets no percentComplete: the       *)
(* property is violated.                                                   *)
(***************************************************************************)
C11_MonotonicProgress ==
  \A p \in ProcIds :
    (Succeeded(procs[p]) /\ procs[p].sink)
      => (/\ Len(procs[p].events) > 0
          /\ NonDecreasing(procs[p].events)
          /\ procs[p].events[Len(procs[p].events)].percentComplete = 100)

(***************************************************************************)
(* C12.  The first event a successful compress, decompress or list reports *)
(* has the stage of the operation at 0 percent and the last one has the    *)
(* stage "complete" at 100 percent.  compress and decompress report no     *)
(* event after the pipeline: the property is violated.                     *)
(***************************************************************************)
C12_StartAndComplete ==
  \A p \in ProcIds :
    (Succeeded(procs[p]) /\ procs[p].sink)
      => (/\ Len(procs[p].events) > 0
          /\ procs[p].events[1].stage = OperationStage(procs[p].op)
          /\ procs[p].events[1].percentComplete = 0
          /\ procs[p].events[Len(procs[p].events)].stage = "complete"
          /\ procs[p].events[Len(procs[p].events)].percentComplete = 100)

(***************************************************************************)
(* C13.  A list with previewLength N of a payload of M decompressed bytes  *)
(* returns the first N bytes and isTruncated = true if M > N, and all M    *)
(* bytes and isTruncated = false if M <= N, however the decompressed data  *)
(* is cut into chunks.  isTruncated compares the bytes held with N and the *)
(* streams are destroyed once N bytes are held: when a chunk ends exactly  *)
(* at N the result says it is not truncated.  The property is violated.    *)
(***************************************************************************)
\* the previewLength execute hands to listContents
PreviewLengthOf(params) ==
  IF params.previewLength = Absent THEN DefaultPreviewLength ELSE params.previewLength

\* the last call was a list that a GzipHandler answered with a success
ListedByGzip ==
  /\ outcome = "returned"
  /\ request.operation = "list"
  /\ ~result.isError
  /\ ClassOf(getHandlerByFormat(handlers, request.format)) = "GzipHandler"

C13_PreviewTruncation ==
  ListedByGzip =>
    LET payload == Gunzip(fs[Resolve(request.sourcePath)].data)
        N == PreviewLengthOf(request)
        M == Len(payload)
        data == result.content.data
    IN IF M > N
       THEN data.preview = SubSeq(payload, 1, N) /\ data.isTruncated
       ELSE data.preview = payload /\ ~data.isTruncated

(***************************************************************************)
(* C14.  In a list or preview operation, once the bytes held reach the     *)
(* preview cap no later chunk is read from the source or kept, whatever    *)
(* the source still holds, and the operation ends with a success.          *)
(* GzipHandler.listContents destroys its streams at the cap.  The tool     *)
(* list-zip-contents gives the pipeline a MemoryWritable that drops what   *)
(* exceeds the cap and acknowledges every chunk, so the source is read to  *)
(* its end: the property is violated.                                      *)
(***************************************************************************)
ListOperations == {"listContents", "listZipContents"}

\* the operation p is a list that holds previewLength bytes or more
CapReached(p) ==
  /\ procs[p].op \in ListOperations
  /\ procs[p].pc = "stream"
  /\ procs[p].totalLength >= procs[p].previewLength

C14_StopsAtCap ==
  [][\A p \in ProcIds :
       (CapReached(p) /\ procs'[p].pc \in {"stream", "done"})
         => (/\ procs'[p].reads = procs[p].reads
             /\ procs'[p].chunks = procs[p].chunks
             /\ (procs'[p].pc = "done" => Succeeded(procs'[p])))]_vars

(***************************************************************************)
(* C15.  Once the caller has asked a compression in progress to stop, the  *)
(* operation reports no further progress and ends with an error result,    *)
(* and the file it was writing is removed.  Nothing hands the request to   *)
(* GzipHandler.compress: the pipeline runs to its end, goes on reporting   *)
(* and returns a success.  The property is violated.                       *)
(***************************************************************************)
C15_CancelStops ==
  [][\A p \in ProcIds :
       (/\ cancelRequested
        /\ procs[p].op = "compress"
        /\ procs[p].pc \in {"stream", "finish"}
        /\ procs'[p].op = "compress"
        /\ procs'[p].pc \in {"stream", "finish", "done"})
         => (/\ procs'[p].events = procs[p].events
             /\ procs'[p].pc = "done"
                  => (Failed(procs'[p]) /\ ~Exists(fs', procs[p].target)))]_vars

(***************************************************************************)
(* C16.  Round trip: when a regular file is compressed with the registered *)
(* format and the archive made is then decompressed, into the archive's    *)
(* directory or into another, the decompress call succeeds unless a stream *)
(* fails, and the file it writes holds the bytes the original file held.   *)
(***************************************************************************)
\* the last call decompressed the archive the compress call made
Decompressed ==
  /\ request.operation = "decompress"
  /\ outcome = "returned"
  /\ request.sourcePath = original.archive

C16_RoundTrip ==
  (Decompressed /\ ~original.ioFail)
    => (/\ ~result.isError
        /\ isFile(fs, result.content.data.targetPath)
        /\ fs[Resolve(result.content.data.targetPath)].data = original.bytes)

C16_Witness ==
  /\ Decompressed
  /\ ~result.isError
  /\ request.outputDirectory = DirOther
  /\ original.bytes = <<GzMagic, 1>>
  /\ original.archive = pathJoin(DirOut, NameAGz)
  /\ fs[Resolve(pathJoin(DirOther, PathA))].data = <<GzMagic, 1>>

(***************************************************************************)
(* C17.  No operation returns a success when a read, transform or write    *)
(* step of it failed: a failed stream, or a file of the folder that cannot *)
(* be read, gives an error result.  zip-folder logs a file it cannot read  *)
(* and leaves it out of the archive, then returns "Compression             *)
(* successful": the property is violated.                                  *)
(***************************************************************************)
C17_NoSilentPartialSuccess ==
  \A p \in ProcIds : Succeeded(procs[p]) => procs[p].failures = 0


(***************************************************************************)
(* C19.  A successful compress reports compressedSize / originalSize x 100 *)
(* and a successful decompress reports                                     *)
(* (decompressedSize / compressedSize - 1) x 100, signed, both from the    *)
(* size of the finished output file, whenever the divisor is not zero.     *)
(* GzipHandler.decompress passes its two sizes to formatCompressionRatio   *)
(* and so reports decompressedSize / compressedSize x 100 without the      *)
(* subtraction: the property is violated.                                  *)
(***************************************************************************)
C19_ReportedRatio ==
  (outcome = "returned" /\ ~result.isError) =>
    LET d == result.content.data IN
      /\ ("compressionRatio" \in DOMAIN d /\ d.originalSize # 0) =>
           /\ d.compressedSize = getFileSize(fs, d.targetPath)
           /\ d.compressionRatio = MathRound(d.compressedSize * 10000, d.originalSize)
      /\ ("expansionRatio" \in DOMAIN d /\ d.compressedSize # 0) =>
           /\ d.decompressedSize = getFileSize(fs, d.targetPath)
           /\ d.expansionRatio = extractionRatio(d.decompressedSize, d.compressedSize)


\* the standalone tools of the model
StandaloneTools == {"unzip", "listZipContents", "zipFolder"}

(***************************************************************************)
(* C20.  A call of a standalone tool whose source path or output directory *)
(* has a ".." segment is rejected when its parameters are parsed, so it    *)
(* never starts.  The schemas only require normalize(path) === path, and   *)
(* "../s.gz" is its own normal form: unzip starts, reads /s.gz and writes  *)
(* /s above the working directory.  The property is violated.              *)
(***************************************************************************)
C20_TraversalRejected ==
  \A p \in ProcIds :
    (/\ procs[p].op \in StandaloneTools
     /\ \/ HasParentSegment(procs[p].sourcePath)
        \/ HasParentSegment(procs[p].target))
      => procs[p].pc = "invalid"


\* the choices of a call that runs alone: the chunks of its own reads, no
\* stream error
Alone(pr) == [chunk |-> pr.chunk, ioFail |-> FALSE, hout |-> "success"]

\* the file a call of the tool reads
SourceOf(params) == Resolve(params.sourcePath)

\* the file a call of the tool writes, if it writes one
OutputsOf(params) ==
  IF params.operation = "compress" THEN {Resolve(TargetOf(params))}
  ELSE IF params.operation = "decompress"
  THEN {Resolve(WritePath([op |-> "decompress", sourcePath |-> params.sourcePath,
                           target |-> IF Len(params.outputDirectory) > 0
                                      THEN params.outputDirectory
                                      ELSE pathDirname(params.sourcePath)]))}
  ELSE {}

\* the two calls in progress have different sources and different targets
DifferentPaths ==
  /\ SourceOf(procs[1].params) # SourceOf(procs[2].params)
  /\ OutputsOf(procs[1].params) \cap OutputsOf(procs[2].params) = {}

\* both calls have returned what they return, and the files are what they
\* are, when first runs to its end before second starts
AsOneAfterTheOther(first, second) ==
  LET r1 == execute(procs[first].params, handlers, StreamFs, Alone(procs[first]))
      r2 == execute(procs[second].params, handlers, r1.fs, Alone(procs[second]))
  IN /\ procs[first].result = r1.result
     /\ procs[second].result = r2.result
     /\ fs = r2.fs

(***************************************************************************)
(* C18.  Two calls in progress at once on different source paths and       *)
(* different target paths do not interfere: whatever the interleaving of   *)
(* their steps, once both have returned, their results and the files are   *)
(* those of the two calls run one after the other, in one order or the     *)
(* other.  The file system is shared: a call whose source is the file the  *)
(* other call is writing reads a part of it.  The property is violated.    *)
(***************************************************************************)
C18_NoInterference ==
  (/\ procs[1].pc = "done"
   /\ procs[2].pc = "done"
   /\ DifferentPaths)
    => (AsOneAfterTheOther(1, 2) \/ AsOneAfterTheOther(2, 1))


\* the handler a request is dispatched to
HandlerOf(params) == getHandlerByFormat(handlers, params.format)

(***************************************************************************)
(* C21.  A decompress or list call on an existing source checks that the   *)
(* source is a file, then the format of its name, then (decompress) makes  *)
(* the output directory, then calls the handler.  A source that is not a   *)
(* file gives the must-be-a-file failure whatever its name; a file whose   *)
(* name the handler does not accept gives the format failure, the output   *)
(* directory is not created and no handler method is called; otherwise     *)
(* ensureDir comes before handler.decompress, and list calls               *)
(* handler.listContents without making a directory.                        *)
(***************************************************************************)
C21_DecompressCheckOrder ==
  [][(/\ CallStep
      /\ Dispatched(request')
      /\ request'.operation \in {"decompress", "list"}
      /\ fileExists(fs, request'.sourcePath))
       => IF ~isFile(fs, request'.sourcePath)
          THEN /\ FailureText(result', "Source path must be a file: ")
               /\ trace' = <<"fileExists", "isFile">>
               /\ fs' = fs
          ELSE IF ~isFormatValid(HandlerOf(request'), request'.sourcePath)
          THEN /\ outcome' = "returned"
               /\ FailureText(result', "File is not a valid file: ")
               /\ trace' = <<"fileExists", "isFile">>
               /\ fs' = fs
          ELSE IF request'.operation = "decompress"
          THEN \/ trace' = <<"fileExists", "isFile", "ensureDir", "handler.decompress">>
               \/ (trace' = <<"fileExists", "isFile", "ensureDir">> /\ IsFailure(result'))
          ELSE trace' = <<"fileExists", "isFile", "handler.listContents">>]_vars

C21_Witness ==
  /\ outcome = "returned"
  /\ request.operation = "decompress"
  /\ request.sourcePath = PathA
  /\ request.outputDirectory = DirOut
  /\ FailureText(result, "File is not a valid file: ")
  /\ ~fileExists(fs, DirOut)


\* normalizePath was called on filePath and threw the traversal error
TraversalThrown ==
  /\ utility.gave.threw
  /\ utility.gave.message = TraversalText

(***************************************************************************)
(* C22.  normalizePath throws the traversal error exactly when the         *)
(* normalized path has a ".." segment, whether the path is absolute or     *)
(* relative, and returns the normalized path otherwise.  It throws for     *)
(* every such path, but the test is normalized.includes('..'): it also     *)
(* throws for a path without ".." segment whose text has two dots in a     *)
(* row, so the second half of the property is violated.                    *)
(***************************************************************************)
C22_TraversalFails ==
  utility.method = "normalizePath" =>
    IF HasParentSegment(pathNormalize(utility.filePath))
    THEN TraversalThrown
    ELSE utility.gave = Gives(pathNormalize(utility.filePath))

(***************************************************************************)
(* C29.  normalizePath rejects traversal only: a path whose normalized     *)
(* form has no ".." segment is returned normalized, also when a file or    *)
(* directory name has two dots in a row.  The property is violated:        *)
(* "a..a" is thrown out as a traversal.                                    *)
(***************************************************************************)
C29_OnlyTraversalRejected ==
  (/\ utility.method = "normalizePath"
   /\ utility.gave.threw)
    => HasParentSegment(pathNormalize(utility.filePath))


(***************************************************************************)
(* C25.  A progress event with a known totalBytes > 0 and                  *)
(* 0 <= bytesProcessed <= totalBytes has                                   *)
(* percentComplete = floor(bytesProcessed / totalBytes * 100), a value     *)
(* from 0 to 100.  formatProgress rounds to the nearest integer with       *)
(* Math.round: 2 bytes of 3 give 67 and not 66.  The property is violated. *)
(***************************************************************************)
C25_PercentIsFloor ==
  (/\ utility.method = "formatProgress"
   /\ utility.totalBytes > 0)
    => (/\ utility.gave.percentComplete = (utility.bytesProcessed * 100) \div utility.totalBytes
        /\ utility.gave.percentComplete \in 0..100)


\* ensureDir was called on dirPath and has returned or thrown
EnsureDirCalled == utility.method = "ensureDir"

\* calling ensureDir again on the same path changes nothing and ends as
\* the first call did
SecondCallSame ==
  LET again == ensureDir(fs, utility.dirPath)
  IN again.fs = fs /\ again.threw = utility.threw

\* p lies under a regular file of f
UnderFile(f, p) ==
  \E a \in Ancestors(Resolve(p)) : a \in DOMAIN f /\ f[a].kind = "file"

\* every node of the file system before the call is still what it was
NothingLost ==
  \A k \in DOMAIN utility.before : k \in DOMAIN fs /\ fs[k] = utility.before[k]

PathNew == <<"f", ".", "n", "e", "w", "e", "x", "t">>

\* the files a handler is looked up for
LookupFiles == {PathBGz, PathBGZ, PathNew, PathA}

\* the register calls whose handler is still registered: those that no
\* later call under the same name has replaced
StandingCalls ==
  {i \in 1..Len(regLog) :
     \A j \in (i + 1)..Len(regLog) : ~SameModuloCase(regLog[j].name, regLog[i].name)}

\* the handler of the earliest standing register call that accepts filePath
FirstRegisteredFor(filePath) ==
  LET valid == {i \in StandingCalls : isFormatValid(regLog[i].handler, filePath)}
  IN IF valid = {} THEN Undefined
     ELSE regLog[CHOOSE i \in valid : \A j \in valid : i <= j].handler

(***************************************************************************)
(* C24.  getHandlerForFile returns the handler registered first among the  *)
(* registered handlers that accept the path, none when none accepts it;    *)
(* after a name has been registered again with another handler, the place  *)
(* of that handler in the order is the place of the register call that     *)
(* brought it.  A Map keeps a key at the place of its first insertion, so  *)
(* the new handler takes the place of the one it replaces, ahead of the    *)
(* handlers registered in between: the property is violated.               *)
(***************************************************************************)
C24_RegistrationOrder ==
  \A filePath \in LookupFiles :
    getHandlerForFile(handlers, filePath) = FirstRegisteredFor(filePath)


(***************************************************************************)
(* C26.  A decompress call never writes to its own source: when the source *)
(* is a file whose name the handler accepts and no output directory is     *)
(* given, the source holds after the call what it held before.             *)
(* isFormatValid lowers the case of the name and decompress does not:      *)
(* "b.GZ" is accepted, ".gz" is not found at its end, so the target is     *)
(* the source itself and opening it for writing empties it.  The property  *)
(* is violated.                                                            *)
(***************************************************************************)
C26_SourceNotWritten ==
  [][(/\ CallStep
      /\ Dispatched(request')
      /\ request'.operation = "decompress"
      /\ Len(request'.outputDirectory) = 0
      /\ isFile(fs, request'.sourcePath)
      /\ isFormatValid(HandlerOf(request'), request'.sourcePath))
       => fs'[Resolve(request'.sourcePath)] = fs[Resolve(request'.sourcePath)]]_vars


\* the handlers that some registered format name resolves to
RegisteredHandlers ==
  {getHandlerByFormat(handlers, MapKeys(handlers)[i]) : i \in 1..Len(handlers)}

(***************************************************************************)
(* C27.  After any sequence of register calls the two maps agree: a        *)
(* handler that an extension resolves to is the handler that some          *)
(* registered format name resolves to.  register replaces the handler of   *)
(* a name and leaves the extensions of the replaced handler in             *)
(* extensionMap: the property is violated.                                 *)
(***************************************************************************)
C27_MapsConsistent ==
  \A e \in LookupExtensions :
    getHandlerByExtension(extensionMap, e) # Undefined
      => getHandlerByExtension(extensionMap, e) \in RegisteredHandlers


\* both calls are compress calls of existing files that resolve to the
\* same target path, absent when the calls are made
SameTarget ==
  /\ \A p \in ProcIds :
       /\ procs[p].params.operation = "compress"
       /\ isFile(StreamFs, procs[p].params.sourcePath)
  /\ Resolve(TargetOf(procs[1].params)) = Resolve(TargetOf(procs[2].params))
  /\ ~fileExists(StreamFs, TargetOf(procs[1].params))

\* the call p has returned the existing-output failure
ExistingOutputFailure(pr) ==
  Failed(pr) /\ pr.result.error.message.text = "Output file already exists: "

BothReturned == \A p \in ProcIds : procs[p].pc = "done"

PipelineFailed(r) ==
  /\ r.isError
  /\ r.error.message = Msg("Error compressing file: ", <<"stream">>)

(***************************************************************************)
(* C30.  A compress call whose pipeline fails after the target was opened  *)
(* leaves the target file in place, and the same call made again, the      *)
(* output name being derived from the source, returns the existing-output  *)
(* failure and changes nothing.                                            *)
(***************************************************************************)
C30_FailedTargetBlocksRetry ==
  [][/\ (/\ CallStep
         /\ Dispatched(request')
         /\ request'.operation = "compress"
         /\ outcome' = "returned"
         /\ PipelineFailed(result'))
          => isFile(fs', TargetOf(request'))
     /\ (/\ CallStep
         /\ request' = request
         /\ request.operation = "compress"
         /\ Len(request.outputFileName) = 0
         /\ outcome = "returned"
         /\ PipelineFailed(result))
          => (/\ outcome' = "returned"
              /\ FailureText(result', "Output file already exists: ")
              /\ ~HandlerInvoked(trace')
              /\ fs' = fs)]_vars

C30_Witness ==
  /\ outcome = "returned"
  /\ request.operation = "compress"
  /\ request.sourcePath = PathA
  /\ Len(request.outputFileName) = 0
  /\ Len(request.outputDirectory) = 0
  /\ FailureText(result, "Output file already exists: ")
  /\ isFile(fs, NameAGz)
  /\ getFileSize(fs, NameAGz) = 0
====
